---- MODULE Spec2Model ----
(***************************************************************************)
(* Propofol TCI simulator: the step-down controller of the advanced        *)
(* protocol engine, the live induction engine and the monitoring engine.   *)
(*                                                                         *)
(* Fixed-point units (the source computes in IEEE doubles):                *)
(*   protocol time      1 = 0.01 min      (timeStep 0.1 min = 10)          *)
(*   infusion rate      1 = 0.001 mg/hr   (minimumRate 0.1 mg/hr = 100)    *)
(*   concentration      1 = 0.01 ug/mL                                     *)
(*   ratios / factors   percent                                            *)
(*   induction          amounts 0.001 mg, concentrations 0.001 ug/mL,      *)
(*                      BIS 0.01, wall clock and elapsed time 0.1 s,       *)
(*                      volumes 0.01 L, rate constants 0.0001 /min,        *)
(*                      continuous dose mg/hr                              *)
(*   monitoring         time 1 = 0.0025 min (the grid step 0.01 min = 4),  *)
(*                      amounts 0.001 mg, rates mg/hr                      *)
(***************************************************************************)
EXTENDS Integers, Sequences, FiniteSets, TLC

VARIABLES
    \* ---- AdvancedProtocolEngine (src/unnamed/part_002) ----
    settings,             \* this.settings
    pc,                   \* "loop" | "extract" | "done"
    i,                    \* loop index of simulateAdvancedStepDownProtocol
    currentCe,
    currentRate,
    infusionRateMgMin,    \* rate handed to updateSystemStateRK4 at step i (rate units)
    lastAdjustmentTime,
    adjustmentCount,
    adjustmentsThisHour,
    currentHour,
    timeSeriesData,
    dosageAdjustments,    \* result of generateAdvancedStepDownProtocol
    reductions,           \* history: the rate reductions the loop performed
    protocolState,        \* the local state = { a1, a2, a3 } of the loop
    calcPatient,          \* the patient handed to EleveldPKPDCalculator
    calcResult,           \* what calculatePKParameters(patient) returned
    appPatient,           \* appState.patient, the Patient of the session (main.js)
    enginesPatient,       \* its fields when the engines last derived their parameters
    editOutcome,          \* "none" | "saved" | "rejected" (the alert was shown)
    searchPc,             \* "idle" | "loop" (inside a grid search) | "return" | "done"
    stage,                \* the search optimizeContinuousInfusionRate is making
    stepSize,             \* locals of optimizeContinuousInfusionRate
    searchMaxRate,
    scoring,              \* what simulateMultiPointProtocol(...).score is for each rate
    step,                 \* arguments and locals of gridSearchOptimizationMultiPoint
    minRate,
    maxRate,
    searchRate,           \* the loop variable rate
    bestRate,
    bestScore,
    results,
    searches,             \* coarseSearch, mediumSearch, fineSearch once returned
    \* ---- InductionEngine (src/js/induction-engine.js) ----
    isRunning,
    startTime,            \* wall clock at start(), or Null
    elapsedTime,
    patient,
    pkParams,
    pdParams,
    state,                \* [a1, a2, a3, ce]
    bolusDose,
    continuousDose,
    snapshots,
    timer,                \* Null, or "interval" while setInterval is armed
    useLSODA,
    lsodaSolver,
    integrationStats,
    updateCallbacks,
    bisValue,
    now,                  \* wall clock (new Date()), 1 = 0.1 s
    lsodaDefined,         \* typeof LSODA !== 'undefined'
    lastOp,               \* the last call made on the engine and what it returned
    notifications,        \* the notifications of the last call: one sequence of
                          \* [cb, arg] deliveries per notifyCallbacks()
    stepsIntegrated,      \* history: integration steps since the last start
    snapshotLog,          \* history: snapshots taken since the last start, newest first
    resetSinceStart,      \* history: reset() was called since the last start
    nStarts,              \* history: successful starts
    \* ---- MonitoringEngine (src/js/monitoring-engine.js) ----
    doseEvents,           \* this.doseEvents
    monPatient,           \* this.patient
    monPkParams,          \* this.pkParams
    monPdParams,          \* this.pdParams
    lastSimulationResult, \* <<>> for null, else <<"SimulationResult">>: the result
                          \* object, whose contents are the locals of the run at "done"
    monPc,                \* "idle" | "loop" (inside runSimulation) | "done"
    finalDuration,        \* locals of runSimulation / calculatePlasmaConcentrationsRK4
    index,
    bolusEvents,
    infusionEvents,
    bolusIndex,
    infusionIndex,
    currentInfusionRate,
    initialBolus,
    monState,             \* [a1, a2, a3]
    plasmaConcentrations,
    monLastOp,            \* the last call made on the engine and what it returned
    appliedBoluses        \* history: the jumps state.a1 += dose of the run

simVars == <<protocolState>>

calcVars == <<calcPatient, calcResult>>

appVars == <<appPatient, enginesPatient, editOutcome>>

optVars == <<searchPc, stage, stepSize, searchMaxRate, scoring, step, minRate, maxRate,
             searchRate, bestRate, bestScore, results, searches>>

ctlVars == <<settings, pc, i, currentCe, currentRate, infusionRateMgMin,
             lastAdjustmentTime, adjustmentCount, adjustmentsThisHour,
             currentHour, timeSeriesData, dosageAdjustments, reductions, simVars,
             calcVars, appVars, optVars>>

indVars == <<isRunning, startTime, elapsedTime, patient, pkParams, pdParams, state,
             bolusDose, continuousDose, snapshots, timer, useLSODA, lsodaSolver,
             integrationStats, updateCallbacks, bisValue, now, lsodaDefined, lastOp,
             notifications, stepsIntegrated, snapshotLog, resetSinceStart, nStarts>>

monVars == <<doseEvents, monPatient, monPkParams, monPdParams, lastSimulationResult,
             monPc, finalDuration, index, bolusEvents, infusionEvents, bolusIndex,
             infusionIndex, currentInfusionRate, initialBolus, monState,
             plasmaConcentrations, monLastOp, appliedBoluses>>

vars == <<ctlVars, indVars, monVars>>

Max(a, b) == IF a >= b THEN a ELSE b
Min(a, b) == IF a <= b THEN a ELSE b
Abs(a) == IF a >= 0 THEN a ELSE 0 - a

(***************************************************************************)
(* InductionEngine: constructor                                            *)
(*   amounts 1 = 0.001 mg, concentrations 1 = 0.001 ug/mL, BIS 1 = 0.01,   *)
(*   wall clock and elapsedTime 1 = 0.1 s, doses: bolus 0.001 mg, rate mg/hr *)
(***************************************************************************)
Null == "null"                  \* null, for the fields that hold names
NullParams == [null |-> TRUE]   \* null, for this.pkParams and this.pdParams
NoTime == 0 - 1                 \* null, for this.startTime
TypeError == [error |-> "TypeError"]

InitialBIS == 10000             \* this.bisValue = 100.0

ConstructInduction ==
    /\ isRunning = FALSE
    /\ startTime = NoTime
    /\ elapsedTime = 0
    /\ patient = Null
    /\ pkParams = NullParams
    /\ pdParams = NullParams
    /\ state = [a1 |-> 0, a2 |-> 0, a3 |-> 0, ce |-> 0]
    /\ bolusDose = 0
    /\ continuousDose = 0
    /\ snapshots = <<>>
    /\ timer = Null
    /\ useLSODA = TRUE
    /\ lsodaSolver = Null
    /\ integrationStats = Null
    /\ updateCallbacks = <<>>
    /\ bisValue = InitialBIS
    /\ lastOp = [name |-> "constructor", ret |-> Null]
    /\ notifications = <<>>
    /\ stepsIntegrated = 0
    /\ snapshotLog = <<>>
    /\ resetSinceStart = FALSE
    /\ nStarts = 0

\* the induction engine as constructed and never used
IdleInduction ==
    /\ ConstructInduction
    /\ now = 0
    /\ lsodaDefined = FALSE

\* MonitoringEngine constructor; the locals of a run at their initial values
ConstructMonitoring ==
    /\ doseEvents = <<>>
    /\ monPatient = Null
    /\ monPkParams = NullParams
    /\ monPdParams = NullParams
    /\ lastSimulationResult = <<>>
    /\ monPc = "idle"
    /\ finalDuration = 0
    /\ index = 0
    /\ bolusEvents = <<>>
    /\ infusionEvents = <<>>
    /\ bolusIndex = 0
    /\ infusionIndex = 0
    /\ currentInfusionRate = 0
    /\ initialBolus = 0
    /\ monState = [a1 |-> 0, a2 |-> 0, a3 |-> 0]
    /\ plasmaConcentrations = <<>>
    /\ monLastOp = [name |-> "constructor", ret |-> Null]
    /\ appliedBoluses = <<>>

\* the monitoring engine as constructed and never used
IdleMonitoring == ConstructMonitoring

(***************************************************************************)
(* AdvancedProtocolEngine: settings                                        *)
(***************************************************************************)
MinutesPerHour == 6000          \* the literal 60 (minutes) in Math.floor(currentTime / 60)
RateChangeEpsilon == 100        \* the literal 0.1 (mg/hr) in the rate change detection

DefaultSettings ==
    [ targetCe              |-> 300,     \* 3.0 ug/mL
      upperThresholdRatio   |-> 120,     \* 1.2
      reductionFactor       |-> 70,      \* 0.70
      timeStep              |-> 10,      \* 0.1 min
      simulationDuration    |-> 36000,   \* 360 min
      adjustmentInterval    |-> 500,     \* 5.0 min
      minimumRate           |-> 100,     \* 0.1 mg/hr
      maxAdjustmentsPerHour |-> 3 ]

\* updateSettings(newSettings): { ...this.settings, ...newSettings }
updateSettings(s, new) ==
    [k \in DOMAIN s |-> IF k \in DOMAIN new THEN new[k] ELSE s[k]]

\* The runs that are explored: coarse time steps so that whole hours fit in a
\* short run, and the default 0.1 min step over one minute.
SettingsOverrides ==
    { [timeStep |-> 1000, simulationDuration |-> 10000, adjustmentInterval |-> 1000,
       maxAdjustmentsPerHour |-> 2],
      [timeStep |-> 1000, simulationDuration |-> 10000, adjustmentInterval |-> 1500,
       maxAdjustmentsPerHour |-> 3],
      [timeStep |-> 1000, simulationDuration |-> 10000, adjustmentInterval |-> 500,
       maxAdjustmentsPerHour |-> 3, reductionFactor |-> 40],
      [timeStep |-> 10, simulationDuration |-> 100, adjustmentInterval |-> 30,
       maxAdjustmentsPerHour |-> 3] }

InitialRates == {100000, 600, 300}     \* 100, 0.6 and 0.3 mg/hr

\* effect-site levels the integration may deliver at a step: below the upper
\* threshold (3.6 ug/mL for the target 3.0) and exactly on it
CeLevels == {200, 360}

\* const numSteps = Math.floor(simulationDuration / timeStep) + 1
numSteps(s) == (s.simulationDuration \div s.timeStep) + 1

\* const upperThreshold = targetCe * this.settings.upperThresholdRatio
upperThreshold(s) == (s.targetCe * s.upperThresholdRatio) \div 100

\* parseFloat(currentTime.toFixed(1)): round to one decimal of a minute
toFixed1(t) == ((t + 5) \div 10) * 10

(***************************************************************************)
(* The four guards of the step-down and the new rate                       *)
(***************************************************************************)
CooldownOkNoWait(t, last, s) == t - last >= 0

CooldownOk(t, last, s) == t - last >= s.adjustmentInterval

HourBudgetOkOffByOne(n, s) == n <= s.maxAdjustmentsPerHour

HourBudgetOk(n, s) == n < s.maxAdjustmentsPerHour

NewRateNoFloor(rate, s) == (rate * s.reductionFactor) \div 100

\* Math.max(minimumRate, currentRate * reductionFactor)
NewRate(rate, s) == Max(s.minimumRate, (rate * s.reductionFactor) \div 100)

StepDownGuardAtAnyLevel(ce, t, last, n, rate, s) ==
    /\ CooldownOk(t, last, s)
    /\ HourBudgetOk(n, s)
    /\ rate > s.minimumRate

\* if (currentCe >= upperThreshold && currentTime - lastAdjustmentTime >=
\* adjustmentInterval && adjustmentsThisHour < maxAdjustmentsPerHour &&
\* currentRate > minimumRate)
StepDownGuard(ce, t, last, n, rate, s) ==
    /\ ce >= upperThreshold(s)
    /\ CooldownOk(t, last, s)
    /\ HourBudgetOk(n, s)
    /\ rate > s.minimumRate

\* the compartments are not followed: the effect-site level of a step is drawn
NotIntegrated == protocolState = [a1 |-> 0, a2 |-> 0, a3 |-> 0]

\* no call of the calculator is followed
NotDerived == calcPatient = NullParams /\ calcResult = NullParams

\* no application started
NoSession ==
    /\ appPatient = NullParams
    /\ enginesPatient = NullParams
    /\ editOutcome = "none"

\* no optimization made
IdleGridSearch ==
    /\ searchPc = "idle"
    /\ stage = "none"
    /\ stepSize = 0
    /\ searchMaxRate = 0
    /\ scoring = [peak |-> 0, height |-> 0, slope |-> 0]
    /\ step = 0
    /\ minRate = 0
    /\ maxRate = 0
    /\ searchRate = 0
    /\ bestRate = 0
    /\ bestScore = 0
    /\ results = <<>>
    /\ searches = <<>>

(***************************************************************************)
(* simulateAdvancedStepDownProtocol: one iteration of the loop             *)
(***************************************************************************)
InitStepDownWith(overrides) ==
    /\ \E o \in overrides : settings = updateSettings(DefaultSettings, o)
    /\ currentRate \in InitialRates
    /\ pc = "loop"
    /\ i = 0
    /\ currentCe = 0                                \* bolusState.effectSiteConc
    /\ infusionRateMgMin = 0
    /\ lastAdjustmentTime = 0 - settings.adjustmentInterval
    /\ adjustmentCount = 0
    /\ adjustmentsThisHour = 0
    /\ currentHour = 0
    /\ timeSeriesData = <<>>
    /\ dosageAdjustments = <<>>
    /\ reductions = <<>>
    /\ NotIntegrated
    /\ IdleGridSearch
    /\ NotDerived
    /\ NoSession
    /\ IdleInduction
    /\ IdleMonitoring

InitStepDown == InitStepDownWith(SettingsOverrides)

SimulateStep ==
    /\ pc = "loop"
    /\ i < numSteps(settings)
    /\ LET currentTime == i * settings.timeStep
           hour == currentTime \div MinutesPerHour
           thisHour == IF hour > currentHour THEN 0 ELSE adjustmentsThisHour
       IN
       \E ce \in (IF i > 0 THEN CeLevels ELSE {currentCe}) :
         LET reduce == StepDownGuard(ce, currentTime, lastAdjustmentTime, thisHour,
                                     currentRate, settings)
             rate == IF reduce THEN NewRate(currentRate, settings) ELSE currentRate
             count == IF reduce THEN adjustmentCount + 1 ELSE adjustmentCount
         IN
         /\ infusionRateMgMin' = currentRate      \* taken before the step-down
         /\ currentHour' = IF hour > currentHour THEN hour ELSE currentHour
         /\ currentCe' = ce
         /\ currentRate' = rate
         /\ adjustmentCount' = count
         /\ adjustmentsThisHour' = IF reduce THEN thisHour + 1 ELSE thisHour
         /\ lastAdjustmentTime' = IF reduce THEN currentTime ELSE lastAdjustmentTime
         /\ reductions' = IF reduce
                          THEN Append(reductions, [time |-> currentTime,
                                                   oldRate |-> currentRate,
                                                   newRate |-> rate])
                          ELSE reductions
         /\ timeSeriesData' = Append(timeSeriesData,
                                     [time |-> toFixed1(currentTime),
                                      ce |-> ce,
                                      infusionRate |-> rate,
                                      adjustmentNumber |-> count])
    /\ i' = i + 1
    /\ pc' = IF i + 1 < numSteps(settings) THEN "loop" ELSE "extract"
    /\ UNCHANGED <<settings, dosageAdjustments>>
    /\ UNCHANGED <<simVars, calcVars, appVars, optVars, indVars, monVars>>

(***************************************************************************)
(* generateAdvancedStepDownProtocol: the adjustments read back from the    *)
(* time series                                                             *)
(***************************************************************************)
RateChanged(series, k) ==
    Abs(series[k].infusionRate - series[k - 1].infusionRate) > RateChangeEpsilon

ExtractAdjustments(series) ==
    LET idx == SelectSeq([k \in 1..(Len(series) - 1) |-> k + 1],
                         LAMBDA k : RateChanged(series, k))
    IN [n \in 1..Len(idx) |->
          [time |-> series[idx[n]].time,
           oldRate |-> series[idx[n] - 1].infusionRate,
           newRate |-> series[idx[n]].infusionRate,
           ceAtEvent |-> series[idx[n]].ce,
           reductionPercent |->
               ((series[idx[n] - 1].infusionRate - series[idx[n]].infusionRate) * 100)
                   \div series[idx[n] - 1].infusionRate,
           adjustmentNumber |-> n]]

GenerateProtocol ==
    /\ pc = "extract"
    /\ dosageAdjustments' = ExtractAdjustments(timeSeriesData)
    /\ pc' = "done"
    /\ UNCHANGED <<settings, i, currentCe, currentRate, infusionRateMgMin,
                   lastAdjustmentTime, adjustmentCount, adjustmentsThisHour,
                   currentHour, timeSeriesData, reductions>>
    /\ UNCHANGED <<simVars, calcVars, appVars, optVars, indVars, monVars>>

NextStepDown == SimulateStep \/ GenerateProtocol

SpecStepDown == InitStepDown /\ [][NextStepDown]_vars

\* runs over whole hours: two hours in steps of 20 min, the default three
\* adjustments per hour or two, the cooldown one step
MaxHours == 2          \* hours of simulated time in these runs

WholeHourOverrides ==
    { [timeStep |-> 2000, simulationDuration |-> MaxHours * MinutesPerHour,
       adjustmentInterval |-> 2000, maxAdjustmentsPerHour |-> n] : n \in {2, 3} }

InitWholeHours == InitStepDownWith(WholeHourOverrides)

SpecWholeHours == InitWholeHours /\ [][NextStepDown]_vars

\* no step-down run made
NoStepDownRun ==
    /\ settings = DefaultSettings
    /\ pc = "done"
    /\ i = 0
    /\ currentCe = 0
    /\ currentRate = 0
    /\ infusionRateMgMin = 0
    /\ lastAdjustmentTime = 0
    /\ adjustmentCount = 0
    /\ adjustmentsThisHour = 0
    /\ currentHour = 0
    /\ timeSeriesData = <<>>
    /\ dosageAdjustments = <<>>
    /\ reductions = <<>>
    /\ NotIntegrated

\* the protocol engine as constructed, no run and no optimization made
IdleStepDown == NoStepDownRun /\ IdleGridSearch /\ NotDerived /\ NoSession

(***************************************************************************)
(* ProtocolEngine.generateCompleteProtocolRK4 (src/js/protocol-engine.js): *)
(* one iteration of its loop, on the locals of the same names              *)
(***************************************************************************)
ProtocolEngineSettings ==
    [ targetCe           |-> 300,     \* 3.0 ug/mL
      upperThreshold     |-> 120,     \* 1.2
      reductionFactor    |-> 70,      \* 0.70
      timeStep           |-> 10,      \* 0.1 min
      simulationDuration |-> 12000,   \* 120 min
      adjustmentInterval |-> 500 ]    \* 5.0 min

FirstAdjustmentAllowed == 0 - 500   \* let lastAdjustmentTime = -5
FloorRate == 100                    \* the literal 0.1 (mg/hr) of the rate floor

\* the runs that are explored: updateSettings and the target concentration
\* runCompleteOptimization stores
ProtocolOverrides ==
    { [timeStep |-> 1000, simulationDuration |-> 6000, adjustmentInterval |-> 1000],
      [timeStep |-> 1000, simulationDuration |-> 6000, adjustmentInterval |-> 500,
       reductionFactor |-> 40, targetCe |-> 100],
      [timeStep |-> 10, simulationDuration |-> 60, adjustmentInterval |-> 30] }

\* effect-site levels the integration may deliver at a step: 1.0, 2.0 and 3.6
\* ug/mL
ProtocolCeLevels == {100, 200, 360}

InitProtocolRK4 ==
    /\ \E o \in ProtocolOverrides : settings = updateSettings(ProtocolEngineSettings, o)
    /\ currentRate \in InitialRates
    /\ pc = "rk4"
    /\ i = 0
    /\ currentCe = 0                                \* bolusState.effectSiteConc
    /\ infusionRateMgMin = 0
    /\ lastAdjustmentTime = FirstAdjustmentAllowed
    /\ adjustmentCount = 0
    /\ adjustmentsThisHour = 0
    /\ currentHour = 0
    /\ timeSeriesData = <<>>
    /\ dosageAdjustments = <<>>
    /\ reductions = <<>>
    /\ NotIntegrated
    /\ IdleGridSearch
    /\ NotDerived
    /\ NoSession
    /\ IdleInduction
    /\ IdleMonitoring

\* if (currentCe >= this.settings.upperThreshold && currentTime -
\* lastAdjustmentTime >= this.settings.adjustmentInterval && currentRate > 0.1)
ThresholdReached(ce, t, last, rate, s) ==
    /\ ce >= s.upperThreshold
    /\ t - last >= s.adjustmentInterval
    /\ rate > FloorRate

GenerateStepRK4 ==
    /\ pc = "rk4"
    /\ i < numSteps(settings)
    /\ LET currentTime == i * settings.timeStep IN
       \E ce \in (IF i > 0 THEN ProtocolCeLevels ELSE {currentCe}) :
         LET reduce == ThresholdReached(ce, currentTime, lastAdjustmentTime,
                                        currentRate, settings)
             rate == IF reduce
                     THEN Max(FloorRate, (currentRate * settings.reductionFactor) \div 100)
                     ELSE currentRate
             count == IF reduce THEN adjustmentCount + 1 ELSE adjustmentCount
         IN
         /\ infusionRateMgMin' = currentRate
         /\ currentCe' = ce
         /\ currentRate' = rate
         /\ adjustmentCount' = count
         /\ lastAdjustmentTime' = IF reduce THEN currentTime ELSE lastAdjustmentTime
         /\ dosageAdjustments' =
              IF reduce
              THEN Append(dosageAdjustments,
                          [time |-> currentTime, oldRate |-> currentRate,
                           newRate |-> rate, ceAtEvent |-> ce,
                           adjustmentNumber |-> count])
              ELSE dosageAdjustments
         /\ reductions' = IF reduce
                          THEN Append(reductions, [time |-> currentTime,
                                                   oldRate |-> currentRate,
                                                   newRate |-> rate])
                          ELSE reductions
         /\ timeSeriesData' = Append(timeSeriesData,
                                     [time |-> toFixed1(currentTime),
                                      ce |-> ce,
                                      infusionRate |-> rate,
                                      adjustmentNumber |-> count])
    /\ i' = i + 1
    /\ pc' = IF i + 1 < numSteps(settings) THEN "rk4" ELSE "done"
    /\ UNCHANGED <<settings, adjustmentsThisHour, currentHour>>
    /\ UNCHANGED <<simVars, calcVars, appVars, optVars, indVars, monVars>>

\* both protocol engines: a run of either
InitProtocolEngines == InitStepDown \/ InitProtocolRK4

NextProtocolEngines == SimulateStep \/ GenerateProtocol \/ GenerateStepRK4

SpecProtocolEngines == InitProtocolEngines /\ [][NextProtocolEngines]_vars

(***************************************************************************)
(* optimizeContinuousInfusionRate: the three-stage grid search             *)
(*   rates 1 = 0.001 mg/hr, scores 1 = 1 point                             *)
(***************************************************************************)
DefaultBestRate == 100000       \* let bestRate = 100.0
CoarseMinRate == 100000         \* the literal 100.0 handed to the coarse search

\* stepSize and maxRate of optimizeContinuousInfusionRate: 30 or 40 mg/hr by
\* targetCe, and Math.min(2000.0, baseMaxRate * compensationFactor), which is
\* baseMaxRate for reductionFactor 1 and 2000 for the default settings
SearchTargets ==
    {[stepSize |-> 30000, maxRate |-> 800000],
     [stepSize |-> 30000, maxRate |-> 2000000],
     [stepSize |-> 40000, maxRate |-> 1200000],
     [stepSize |-> 40000, maxRate |-> 2000000]}

\* the scores simulateMultiPointProtocol gives as a function of the rate: a
\* peak of the given height whose score falls by slope points per mg/hr on
\* both sides, never below 0 (Math.max(0, ...) of each point score)
ScoreAssignments ==
    {[peak |-> 0, height |-> 0, slope |-> 0],            \* no rate scores above 0
     [peak |-> 520000, height |-> 100, slope |-> 0],     \* every rate scores 100
     [peak |-> 400000, height |-> 80, slope |-> 1],      \* a broad peak
     [peak |-> 1003000, height |-> 95, slope |-> 2],
     [peak |-> 520000, height |-> 90, slope |-> 50],     \* a peak under 2 mg/hr wide
     [peak |-> 520000, height |-> 90, slope |-> 5],      \* a peak some 30 mg/hr wide
     [peak |-> 700000, height |-> 60, slope |-> 50],
     [peak |-> 131000, height |-> 70, slope |-> 50]}

\* performanceData.score of simulateMultiPointProtocol(bolusDoseMg, rate, targetCe)
scoreOf(a, r) == Max(0, a.height - (a.slope * Abs(r - a.peak)) \div 1000)

\* gridSearchOptimizationMultiPoint(bolusDoseMg, targetCe, step, minRate, maxRate)
\* up to the first test of its loop
callGridSearch(st, by, from, to) ==
    /\ stage' = st
    /\ step' = by
    /\ minRate' = from
    /\ maxRate' = to
    /\ searchRate' = from
    /\ bestRate' = DefaultBestRate
    /\ bestScore' = 0
    /\ results' = <<>>
    /\ searchPc' = "loop"

InitGridSearch ==
    /\ scoring \in ScoreAssignments
    /\ \E t \in SearchTargets :
          /\ stepSize = t.stepSize
          /\ searchMaxRate = t.maxRate
          /\ step = t.stepSize
          /\ maxRate = t.maxRate
    /\ stage = "coarse"
    /\ minRate = CoarseMinRate
    /\ searchRate = CoarseMinRate
    /\ bestRate = DefaultBestRate
    /\ bestScore = 0
    /\ results = <<>>
    /\ searches = <<>>
    /\ searchPc = "loop"
    /\ NoStepDownRun
    /\ NotDerived
    /\ NoSession
    /\ IdleInduction
    /\ IdleMonitoring

\* one iteration of for (let rate = minRate; rate <= maxRate; rate += step)
SimulateCandidate ==
    /\ searchPc = "loop"
    /\ searchRate <= maxRate
    /\ LET score == scoreOf(scoring, searchRate) IN
       /\ results' = Append(results, [rate |-> searchRate, score |-> score])
       /\ IF score > bestScore
          THEN bestScore' = score /\ bestRate' = searchRate
          ELSE UNCHANGED <<bestScore, bestRate>>
    /\ searchRate' = searchRate + step
    /\ UNCHANGED <<searchPc, stage, stepSize, searchMaxRate, scoring, step, minRate,
                   maxRate, searches>>
    /\ UNCHANGED <<settings, pc, i, currentCe, currentRate, infusionRateMgMin,
                   lastAdjustmentTime, adjustmentCount, adjustmentsThisHour,
                   currentHour, timeSeriesData, dosageAdjustments, reductions>>
    /\ UNCHANGED <<simVars, calcVars, appVars, indVars, monVars>>

\* the loop ends: return { bestRate, bestScore, results }
ReturnGridSearch ==
    /\ searchPc = "loop"
    /\ searchRate > maxRate
    /\ searchPc' = "return"
    /\ UNCHANGED <<stage, stepSize, searchMaxRate, scoring, step, minRate, maxRate,
                   searchRate, bestRate, bestScore, results, searches>>
    /\ UNCHANGED <<settings, pc, i, currentCe, currentRate, infusionRateMgMin,
                   lastAdjustmentTime, adjustmentCount, adjustmentsThisHour,
                   currentHour, timeSeriesData, dosageAdjustments, reductions>>
    /\ UNCHANGED <<simVars, calcVars, appVars, indVars, monVars>>

\* optimizeContinuousInfusionRate takes the result of a search and makes the
\* next one around its bestRate
NextSearch ==
    /\ searchPc = "return"
    /\ IF stage = "coarse"
       THEN LET mediumRange == Max(150000, (bestRate * 3) \div 10) IN
            callGridSearch("medium", 10000,
                           Max(50000, bestRate - mediumRange),
                           Min(searchMaxRate, bestRate + mediumRange))
       ELSE IF stage = "medium"
       THEN LET fineRange == Max(50000, bestRate \div 10) IN
            callGridSearch("fine", 2000,
                           Max(20000, bestRate - fineRange),
                           Min(searchMaxRate, bestRate + fineRange))
       ELSE /\ searchPc' = "done"
            /\ UNCHANGED <<stage, step, minRate, maxRate, searchRate, bestRate,
                           bestScore, results>>
    /\ searches' = Append(searches, [stage |-> stage, bestRate |-> bestRate,
                                      bestScore |-> bestScore])
    /\ UNCHANGED <<stepSize, searchMaxRate, scoring>>
    /\ UNCHANGED <<settings, pc, i, currentCe, currentRate, infusionRateMgMin,
                   lastAdjustmentTime, adjustmentCount, adjustmentsThisHour,
                   currentHour, timeSeriesData, dosageAdjustments, reductions>>
    /\ UNCHANGED <<simVars, calcVars, appVars, indVars, monVars>>

NextGridSearch == SimulateCandidate \/ ReturnGridSearch \/ NextSearch

SpecGridSearch == InitGridSearch /\ [][NextGridSearch]_vars

\* the candidates a search simulated
candidates(res) == {res[k].rate : k \in 1..Len(res)}

\* C17: every search of the three stages returns a rate that is one of the
\* candidates it simulated and whose score is the highest among them, for
\* every assignment of scores, the one with no score above 0 included.
C17_BestIsHighestCandidate ==
    searchPc = "return" =>
        \E k \in 1..Len(results) :
           /\ results[k].rate = bestRate
           /\ results[k].score = bestScore
           /\ \A j \in 1..Len(results) : results[j].score <= results[k].score

\* the same of the searches in which a candidate scored above 0
BestIsHighestCandidateIfPositive ==
    (searchPc = "return" /\ \E j \in 1..Len(results) : results[j].score > 0) =>
        \E k \in 1..Len(results) :
           /\ results[k].rate = bestRate
           /\ results[k].score = bestScore
           /\ \A j \in 1..Len(results) : results[j].score <= results[k].score

\* a search without a score above 0 that returned the default rate although it
\* never simulated it
DefaultRateReturned ==
    /\ searchPc = "return"
    /\ bestRate = DefaultBestRate
    /\ bestRate \notin candidates(results)
    /\ results # <<>>

\* the searches optimizeContinuousInfusionRate has received so far
searchOf(st) == CHOOSE s \in {searches[k] : k \in 1..Len(searches)} : s.stage = st

returned(st) == \E k \in 1..Len(searches) : searches[k].stage = st

\* C27: the rate the medium search returns scores at least the best score of
\* the coarse search, and the rate the fine search returns scores at least the
\* best score of the medium search, for every assignment of scores and target.
C27_StagesNeverWorse ==
    /\ returned("medium") =>
          scoreOf(scoring, searchOf("medium").bestRate) >= searchOf("coarse").bestScore
    /\ returned("fine") =>
          scoreOf(scoring, searchOf("fine").bestRate) >= searchOf("medium").bestScore

\* a medium search whose candidates all score above 0 and less than the rate
\* the coarse search returned, which is not among them
MediumBelowCoarse ==
    /\ returned("medium")
    /\ stage = "fine"
    /\ searchOf("medium").bestScore > 0
    /\ searchOf("medium").bestScore < searchOf("coarse").bestScore
    /\ searchOf("medium").bestRate # DefaultBestRate

\* the same of the optimizations in which each search simulated the rate
\* returned by the one before
NeverWorseIfRateKept ==
    (/\ stage \in {"medium", "fine"}
     /\ searchPc = "return"
     /\ searches[Len(searches)].bestRate \in candidates(results))
        => bestScore >= searches[Len(searches)].bestScore

(***************************************************************************)
(* Step-down contract                                                      *)
(***************************************************************************)
ReductionTimes == {reductions[k].time : k \in 1..Len(reductions)}

C2_AnySixtyMinuteWindow ==
    \A w \in ReductionTimes :
        Cardinality({t \in ReductionTimes : t >= w /\ t < w + MinutesPerHour})
            <= settings.maxAdjustmentsPerHour

\* C2 as amended: every whole hour [60h, 60h + 60) of simulated time contains
\* at most maxAdjustmentsPerHour rate reductions.
C2_PerClockHour ==
    \A h \in 0..(settings.simulationDuration \div MinutesPerHour) :
        Cardinality({t \in ReductionTimes : t \div MinutesPerHour = h})
            <= settings.maxAdjustmentsPerHour

\* the budget of the first hour is used up, a later sample of that hour is on
\* the threshold with the cooldown over and the rate above the minimum, so only
\* the budget holds the rate; the next hour has a reduction again
C2_Witness ==
    /\ Cardinality({t \in ReductionTimes : t \div MinutesPerHour = 0})
           = settings.maxAdjustmentsPerHour
    /\ \E t \in ReductionTimes : t \div MinutesPerHour = 1
    /\ \E k \in 1..Len(timeSeriesData) :
          /\ timeSeriesData[k].ce >= upperThreshold(settings)
          /\ timeSeriesData[k].time < MinutesPerHour
          /\ timeSeriesData[k].infusionRate > settings.minimumRate
          /\ \A t \in ReductionTimes :
                t < MinutesPerHour =>
                    timeSeriesData[k].time - t >= settings.adjustmentInterval

\* C3: every adjustment event reported by generateAdvancedStepDownProtocol has
\* newRate = max(minimumRate, oldRate * reductionFactor), where oldRate is the
\* rate in force immediately before the event.
C3_EventNewRate ==
    pc = "done" =>
      \A n \in 1..Len(dosageAdjustments) :
        LET e == dosageAdjustments[n] IN
        /\ e.newRate = Max(settings.minimumRate,
                           (e.oldRate * settings.reductionFactor) \div 100)
        /\ \E k \in 1..Len(reductions) :
              /\ toFixed1(reductions[k].time) = e.time
              /\ reductions[k].oldRate = e.oldRate

\* a result with an event floored at minimumRate after an event that was not
C3_Witness ==
    /\ pc = "done"
    /\ \E n \in 1..Len(dosageAdjustments) :
          /\ dosageAdjustments[n].newRate = settings.minimumRate
          /\ (dosageAdjustments[n].oldRate * settings.reductionFactor) \div 100
                 < settings.minimumRate
    /\ \E n \in 1..Len(dosageAdjustments) :
          dosageAdjustments[n].newRate > settings.minimumRate

\* the four guards at time t, read from the history of the run: the level ce
\* reached at t, the reductions made before t, the rate in force before t
thresholdReached(ce) == ce >= upperThreshold(settings)

cooldownOver(t, made) ==
    made = <<>> \/ t - made[Len(made)].time >= settings.adjustmentInterval

budgetLeft(t, made) ==
    Cardinality({k \in 1..Len(made) :
                   made[k].time \div MinutesPerHour = t \div MinutesPerHour})
        < settings.maxAdjustmentsPerHour

aboveMinimum(rate) == rate > settings.minimumRate

\* C24: at each step of the loop the rate is reduced if and only if the four
\* guards hold at that step (level at or above the upper threshold, the
\* adjustment interval elapsed since the last reduction, fewer than
\* maxAdjustmentsPerHour reductions in the current hour, rate above the
\* minimum); at every other step the rate is unchanged.
C24_ReducedIffAllGuards ==
    [][pc = "loop" =>
         LET t == i * settings.timeStep
             guards == /\ thresholdReached(currentCe')
                       /\ cooldownOver(t, reductions)
                       /\ budgetLeft(t, reductions)
                       /\ aboveMinimum(currentRate)
         IN /\ guards <=> currentRate' < currentRate
            /\ ~guards => currentRate' = currentRate]_vars

\* the reductions of the run made before the sample k of the series
madeBefore(k) == SelectSeq(reductions, LAMBDA r : r.time < (k - 1) * settings.timeStep)

\* a finished run with a reduction in which the threshold alone, the cooldown
\* alone and the minimum rate alone have each held the rate: for each of them
\* a sample where it fails and the other three guards hold
C24_Witness ==
    /\ pc = "done"
    /\ Len(reductions) >= 1
    /\ \A failing \in {1, 2, 4} :
         \E k \in 2..Len(timeSeriesData) :
            LET t == (k - 1) * settings.timeStep
                held == <<thresholdReached(timeSeriesData[k].ce),
                          cooldownOver(t, madeBefore(k)),
                          budgetLeft(t, madeBefore(k)),
                          aboveMinimum(timeSeriesData[k - 1].infusionRate)>>
            IN /\ \A g \in 1..4 : held[g] <=> g # failing
               /\ timeSeriesData[k].infusionRate = timeSeriesData[k - 1].infusionRate

\* C25: a run of simulationDuration minutes makes at most maxAdjustmentsPerHour
\* x simulationDuration / 60 rate reductions, whatever the effect-site levels.
C25_TotalStepDowns ==
    Len(reductions) * MinutesPerHour
        <= settings.maxAdjustmentsPerHour * settings.simulationDuration

\* the budget of every hour of the run was used and one more reduction was made
\* at the last sample, t = simulationDuration, which opens the next hour
StepDownAtLastSample ==
    /\ pc = "done"
    /\ settings.simulationDuration % MinutesPerHour = 0
    /\ Len(reductions)
         = settings.maxAdjustmentsPerHour * (settings.simulationDuration \div MinutesPerHour)
             + 1
    /\ reductions[Len(reductions)].time = settings.simulationDuration
    /\ Len(dosageAdjustments) = Len(reductions)

\* the bound the loop keeps: maxAdjustmentsPerHour for each clock hour that has a
\* sample, the hour of the last sample included
StepDownsPerStartedHour ==
    Len(reductions)
        <= settings.maxAdjustmentsPerHour
             * (settings.simulationDuration \div MinutesPerHour + 1)

\* C18: when the protocol has been generated, its adjustment events are the
\* rate reductions the controller performed, one event per reduction in the
\* order of the run, each with the time, the old rate and the new rate of its
\* reduction, so that their number is the number of reductions.
C18_OneEventPerReduction ==
    pc = "done" =>
        /\ Len(dosageAdjustments) = Len(reductions)
        /\ Len(dosageAdjustments) = adjustmentCount
        /\ \A k \in 1..Len(dosageAdjustments) :
              /\ dosageAdjustments[k].time = toFixed1(reductions[k].time)
              /\ dosageAdjustments[k].oldRate = reductions[k].oldRate
              /\ dosageAdjustments[k].newRate = reductions[k].newRate

\* the same of the runs whose reductions each change the rate by more than
\* 0.1 mg/hr
OneEventPerLargeReduction ==
    (/\ pc = "done"
     /\ \A k \in 1..Len(reductions) :
           reductions[k].oldRate - reductions[k].newRate > RateChangeEpsilon) =>
        /\ Len(dosageAdjustments) = Len(reductions)
        /\ Len(dosageAdjustments) = adjustmentCount
        /\ \A k \in 1..Len(dosageAdjustments) :
              /\ dosageAdjustments[k].time = toFixed1(reductions[k].time)
              /\ dosageAdjustments[k].oldRate = reductions[k].oldRate
              /\ dosageAdjustments[k].newRate = reductions[k].newRate

\* a reduction that is in no adjustment event
ReductionNotReported ==
    /\ pc = "done"
    /\ adjustmentCount > Len(dosageAdjustments)
    /\ \E k \in 1..Len(reductions) :
          reductions[k].oldRate - reductions[k].newRate <= RateChangeEpsilon

\* target_ce x upper_threshold_ratio of the engine that runs: the ratio is
\* settings.upperThresholdRatio in the advanced engine and settings.upperThreshold
\* (1.2, "120% of target") in ProtocolEngine
thresholdProduct(s) ==
    IF "upperThresholdRatio" \in DOMAIN s
    THEN (s.targetCe * s.upperThresholdRatio) \div 100
    ELSE (s.targetCe * s.upperThreshold) \div 100

\* C19: in both protocol engines a step of the loop lowers the infusion rate
\* only when the effect-site concentration of that step is at least
\* target_ce x upper_threshold_ratio; below that product the rate is kept.
C19_StepDownOnlyAtThreshold ==
    [][currentRate' < currentRate => currentCe' >= thresholdProduct(settings)]_vars

\* the same of the advanced engine alone
AdvancedStepDownOnlyAtThreshold ==
    [][(pc = "loop" /\ currentRate' < currentRate) =>
          currentCe' >= thresholdProduct(settings)]_vars

\* ProtocolEngine lowered the rate at an effect-site concentration under the
\* product of its target and its ratio
ReducedBelowThreshold ==
    /\ pc \in {"rk4", "done"}
    /\ "upperThreshold" \in DOMAIN settings
    /\ \E k \in 1..Len(dosageAdjustments) :
          dosageAdjustments[k].ceAtEvent < thresholdProduct(settings)

(***************************************************************************)
(* EleveldPKPDCalculator: parameters of the patients of the model          *)
(*   volumes 1 = 0.01 L; clearances, rate constants and ke0 1 = 0.0001;    *)
(*   ce50 1 = 0.001 ug/mL; BIS 1 = 0.01; gamma 1 = 0.01                    *)
(***************************************************************************)
Patients == {"reference", "elderly"}

\* the patients whose parameters do not all come out as positive numbers
AnyPatients == Patients \cup {"ageUnknown", "negativeWeight"}

\* the value NaN of a JavaScript number, outside the range of every quantity
NaN == 0 - 1000000000

\* a <= b, a < b and a > b of JavaScript numbers: false when either is NaN
lessEq(a, b) == a # NaN /\ b # NaN /\ a <= b
less(a, b) == a # NaN /\ b # NaN /\ a < b
greater(a, b) == a # NaN /\ b # NaN /\ a > b

\* isNaN(x)
isNaN(x) == x = NaN

\* getModelParameters(patient), evaluated for
\*   reference:      35 y, 70 kg, 170 cm, male, opioid yes
\*   elderly:        60 y, 50 kg, 160 cm, female, opioid no
\*   ageUnknown:     age NaN, 70 kg, 170 cm, male, opioid yes
\*   negativeWeight: 35 y, -10 kg, 170 cm, male, opioid yes
getModelParameters(p) ==
    IF p = "ageUnknown"
    THEN [pk |-> [v1 |-> 628, v2 |-> NaN, v3 |-> NaN, cl |-> NaN, q2 |-> NaN,
                  q3 |-> NaN, ke0 |-> 1460, k10 |-> NaN, k12 |-> NaN, k21 |-> NaN,
                  k13 |-> NaN, k31 |-> NaN],
          pd |-> [ce50 |-> NaN, ke0 |-> 1460, bis_baseline |-> 9300,
                  gamma_low |-> 189, gamma_high |-> 147]]
    ELSE IF p = "negativeWeight"
    THEN [pk |-> [v1 |-> 0 - 394, v2 |-> 0 - 364, v3 |-> 0 - 4664, cl |-> NaN,
                  q2 |-> NaN, q3 |-> NaN, ke0 |-> NaN, k10 |-> NaN, k12 |-> NaN,
                  k21 |-> NaN, k13 |-> NaN, k31 |-> NaN],
          pd |-> [ce50 |-> 3080, ke0 |-> NaN, bis_baseline |-> 9300,
                  gamma_low |-> 189, gamma_high |-> 147]]
    ELSE IF p = "reference"
    THEN [pk |-> [v1 |-> 628, v2 |-> 2550, v3 |-> 16842, cl |-> 16195, q2 |-> 19143,
                  q3 |-> 7727, ke0 |-> 1460, k10 |-> 2579, k12 |-> 3048, k21 |-> 751,
                  k13 |-> 1230, k31 |-> 46],
          pd |-> [ce50 |-> 3080, ke0 |-> 1460, bis_baseline |-> 9300,
                  gamma_low |-> 189, gamma_high |-> 147]]
    ELSE [pk |-> [v1 |-> 556, v2 |-> 1233, v3 |-> 17013, cl |-> 16316, q2 |-> 10905,
                  q3 |-> 7900, ke0 |-> 1588, k10 |-> 2935, k12 |-> 1962, k21 |-> 884,
                  k13 |-> 1421, k31 |-> 46],
          pd |-> [ce50 |-> 2628, ke0 |-> 1588, bis_baseline |-> 9300,
                  gamma_low |-> 189, gamma_high |-> 147]]

\* validateParameters(params).isValid
validateParameters(params) ==
    /\ ~lessEq(params.pk.v1, 0) /\ ~lessEq(params.pk.v2, 0) /\ ~lessEq(params.pk.v3, 0)
    /\ ~lessEq(params.pk.cl, 0) /\ ~lessEq(params.pk.q2, 0) /\ ~lessEq(params.pk.q3, 0)
    /\ ~lessEq(params.pk.ke0, 0)
    /\ ~lessEq(params.pd.ce50, 0) /\ ~lessEq(params.pd.bis_baseline, 0)
    /\ ~lessEq(params.pd.gamma_low, 0) /\ ~lessEq(params.pd.gamma_high, 0)
    /\ ~(less(params.pk.ke0, 500) \/ greater(params.pk.ke0, 10000))
    /\ ~(less(params.pd.ce50, 500) \/ greater(params.pd.ce50, 10000))

isqrt(x) == CHOOSE r \in 0..x : r * r <= x /\ (r + 1) * (r + 1) > x

\* Math.pow(x, gamma) for the two slopes of the model, to the nearest half:
\* gamma_low 1.89 as x^2, gamma_high 1.47 as x^1.5 (x in 0.01 ug/mL)
PowGamma(x, gamma) == IF gamma >= 175 THEN x * x ELSE x * isqrt(x)

\* EleveldPKPDCalculator.calculateBIS(ce, pdParams)
calculateBIS(ce, pd) ==
    IF isNaN(ce) THEN NaN     \* NaN <= 0 is false, Math.pow(NaN, gamma) is NaN
    ELSE IF ce <= 0 THEN pd.bis_baseline
    ELSE LET gamma == IF ce <= pd.ce50 THEN pd.gamma_low ELSE pd.gamma_high
             ce_gamma == PowGamma(ce \div 10, gamma)
             ce50_gamma == PowGamma(pd.ce50 \div 10, gamma)
             bis == IF ce_gamma = 0 THEN pd.bis_baseline
                    ELSE pd.bis_baseline
                           - (pd.bis_baseline * 1000)
                               \div (1000 + (ce50_gamma * 1000) \div ce_gamma)
         IN Max(0, bis)

(***************************************************************************)
(* InductionEngine: integration                                            *)
(***************************************************************************)
\* getPlasmaConcentration(): this.state.a1 / this.pkParams.v1
getPlasmaConcentration(st, pk) ==
    IF isNaN(st.a1) \/ isNaN(pk.v1) THEN NaN ELSE (st.a1 * 100) \div pk.v1

\* a sum or product with one of xs is NaN
anyNaN(xs) == \E x \in xs : isNaN(x)

\* updateSimulationEuler(): dt = 1 s, applied as dt / 60 min
updateSimulationEuler(st, pk, continuous) ==
    LET continuousRate == (continuous * 1000) \div 60
        da1_dt == continuousRate * 10000 - pk.k10 * st.a1 - pk.k12 * st.a1
                    + pk.k21 * st.a2 - pk.k13 * st.a1 + pk.k31 * st.a3
        da2_dt == pk.k12 * st.a1 - pk.k21 * st.a2
        da3_dt == pk.k13 * st.a1 - pk.k31 * st.a3
        a1 == st.a1 + da1_dt \div 600000
        a2 == st.a2 + da2_dt \div 600000
        a3 == st.a3 + da3_dt \div 600000
        plasmaConc == (a1 * 100) \div pk.v1
        dce_dt == pk.ke0 * (plasmaConc - st.ce)
        ce == st.ce + dce_dt \div 600000
        nan1 == anyNaN({continuous, st.a1, st.a2, st.a3,
                        pk.k10, pk.k12, pk.k21, pk.k13, pk.k31})
        nan2 == anyNaN({st.a1, st.a2, pk.k12, pk.k21})
        nan3 == anyNaN({st.a1, st.a3, pk.k13, pk.k31})
        nanCe == nan1 \/ anyNaN({st.ce, pk.ke0, pk.v1})
    IN \* Math.max(0, NaN) is NaN
       [a1 |-> IF nan1 THEN NaN ELSE Max(0, a1),
        a2 |-> IF nan2 THEN NaN ELSE Max(0, a2),
        a3 |-> IF nan3 THEN NaN ELSE Max(0, a3),
        ce |-> IF nanCe THEN NaN ELSE Max(0, ce)]

\* lsodaSolver.integrate(odeSystem, y0, [t, t + 1/60], ...): the last row of
\* result.y for the same system over one second
lsodaIntegrate(st, pk, continuous) == updateSimulationEuler(st, pk, continuous)

\* what a call of lsodaSolver.integrate may do: return rows of numbers, return
\* a single row, or throw
LsodaOutcomes == {"ok", "short", "throw"}

\* ... or return a last row that is not a number
AnyLsodaOutcomes == LsodaOutcomes \cup {"nan"}

\* Math.max(0, x || 0): NaN is falsy
orZero(x) == IF isNaN(x) THEN 0 ELSE Max(0, x)

\* const y0 = [...]
y0(st) == [a1 |-> orZero(st.a1), a2 |-> orZero(st.a2), a3 |-> orZero(st.a3),
           ce |-> orZero(st.ce)]

\* isNaN(this.state.a1) || isNaN(this.state.a2) || ...
containsNaN(st) == anyNaN({st.a1, st.a2, st.a3, st.ce})

\* resetToSafeState(): the fields of this.state that the engine reads
resetToSafeState(bolus) ==
    [a1 |-> IF isNaN(bolus) THEN 0 ELSE bolus, a2 |-> 0, a3 |-> 0, ce |-> 0]

\* updateSimulationLSODA(): <<state, useLSODA, integrationStats>>
updateSimulationLSODA(st, pk, continuous, outcome, stats, bolus) ==
    CASE outcome = "ok" ->
            <<lsodaIntegrate(y0(st), pk, continuous), TRUE, "stats">>
      [] outcome = "nan" ->
            <<[a1 |-> NaN, a2 |-> NaN, a3 |-> NaN, ce |-> NaN], TRUE, "stats">>
      [] outcome = "short" ->
            <<st, TRUE, stats>>
      [] OTHER ->
            \* catch (error): Euler from now on, from the safe state if the
            \* state holds a NaN
            <<updateSimulationEuler(IF containsNaN(st) THEN resetToSafeState(bolus) ELSE st,
                                    pk, continuous),
              FALSE, stats>>

(***************************************************************************)
(* InductionEngine: observables and notification                           *)
(***************************************************************************)
\* getIntegrationMethod()
getIntegrationMethod(lsoda, stats) ==
    IF lsoda /\ stats # Null THEN "LSODA (method)"
    ELSE IF lsoda THEN "LSODA (initializing)" ELSE "Euler"

\* getState(): throws a TypeError while this.pkParams is null
getState(run, elapsed, st, pk, bis, lsoda, stats, snaps, pat, bolus, continuous) ==
    IF pk = NullParams THEN TypeError
    ELSE [isRunning |-> run,
          elapsedTime |-> elapsed,
          plasmaConcentration |-> getPlasmaConcentration(st, pk),
          effectSiteConcentration |-> st.ce,
          bisValue |-> bis,
          integrationMethod |-> getIntegrationMethod(lsoda, stats),
          snapshots |-> snaps,
          patient |-> pat,
          dose |-> [bolus |-> bolus, continuous |-> continuous]]

\* the callbacks handed to addUpdateCallback: "onUpdate" returns, "throwing"
\* throws, "registering" calls addUpdateCallback("registered") unless that one
\* is in the array already, and returns
CallbackKinds == {"onUpdate", "throwing", "registering"}

Throws(cb) == cb = "throwing"

\* this.updateCallbacks after the body of cb has run
bodyOf(cb, cbs) ==
    IF cb = "registering" /\ \A k \in 1..Len(cbs) : cbs[k] # "registered"
    THEN Append(cbs, "registered")
    ELSE cbs

UncaughtIfThrows(cb) == Throws(cb)

\* try { callback(this.getState()) } catch (error) { console.error(...) }: no
\* exception of a callback leaves the loop
Uncaught(cb) == FALSE

\* this.updateCallbacks.forEach(...) from index k on: forEach visits the indices
\* below the length n the array had when it was called; a getState() that throws
\* is caught per callback, and that callback is not invoked
RECURSIVE forEachCallback(_, _, _, _, _)
forEachCallback(cbs, k, n, arg, deliveries) ==
    IF k > n THEN [callbacks |-> cbs, deliveries |-> deliveries]
    ELSE IF arg = TypeError THEN forEachCallback(cbs, k + 1, n, arg, deliveries)
    ELSE IF Uncaught(cbs[k])
    THEN [callbacks |-> bodyOf(cbs[k], cbs),
          deliveries |-> Append(deliveries, [cb |-> cbs[k], arg |-> arg])]
    ELSE forEachCallback(bodyOf(cbs[k], cbs), k + 1, n, arg,
                         Append(deliveries, [cb |-> cbs[k], arg |-> arg]))

\* notifyCallbacks(): the calls it makes, in order (deliveries), and
\* this.updateCallbacks when it returns (callbacks)
notifyCallbacks(cbs, arg) == forEachCallback(cbs, 1, Len(cbs), arg, <<>>)

Callbacks == {"onUpdate"}
MaxCallbacks == 1      \* registered callbacks explored

MaxRegistered == 2     \* callbacks the caller registers when callbacks of every kind are explored

\* addUpdateCallback(callback) with a callback of kinds, at most max of them
AddUpdateCallbackOf(kinds, max) ==
    /\ Len(updateCallbacks) < max
    /\ \E cb \in kinds :
          /\ updateCallbacks' = Append(updateCallbacks, cb)
          /\ lastOp' = [name |-> "addUpdateCallback", ret |-> Null]
    /\ notifications' = <<>>
    /\ UNCHANGED <<isRunning, startTime, elapsedTime, patient, pkParams, pdParams, state,
                   bolusDose, continuousDose, snapshots, timer, useLSODA, lsodaSolver,
                   integrationStats, bisValue, now, lsodaDefined, stepsIntegrated,
                   snapshotLog, resetSinceStart, nStarts>>
    /\ UNCHANGED <<ctlVars, monVars>>

\* addUpdateCallback(callback)
AddUpdateCallback == AddUpdateCallbackOf(Callbacks, MaxCallbacks)

\* addUpdateCallback(callback) with a callback that may throw or register another
AddCallbackOfAnyKind == AddUpdateCallbackOf(CallbackKinds, MaxRegistered)

\* this.updateCallbacks.indexOf(callback): the first index, 0 for -1
indexOf(cbs, cb) ==
    IF \E k \in 1..Len(cbs) : cbs[k] = cb
    THEN CHOOSE k \in 1..Len(cbs) : cbs[k] = cb /\ \A j \in 1..(k - 1) : cbs[j] # cb
    ELSE 0

\* this.updateCallbacks.splice(index, 1)
splice(cbs, at) == SubSeq(cbs, 1, at - 1) \o SubSeq(cbs, at + 1, Len(cbs))

\* removeUpdateCallback(callback)
RemoveUpdateCallback ==
    /\ \E cb \in CallbackKinds \cup {"registered"} :
          updateCallbacks' = IF indexOf(updateCallbacks, cb) > 0
                             THEN splice(updateCallbacks, indexOf(updateCallbacks, cb))
                             ELSE updateCallbacks
    /\ lastOp' = [name |-> "removeUpdateCallback", ret |-> Null]
    /\ notifications' = <<>>
    /\ UNCHANGED <<isRunning, startTime, elapsedTime, patient, pkParams, pdParams, state,
                   bolusDose, continuousDose, snapshots, timer, useLSODA, lsodaSolver,
                   integrationStats, bisValue, now, lsodaDefined, stepsIntegrated,
                   snapshotLog, resetSinceStart, nStarts>>
    /\ UNCHANGED <<ctlVars, monVars>>

(***************************************************************************)
(* InductionEngine: operations                                             *)
(***************************************************************************)
MaxTicks == 1          \* timer periods of wall clock explored
MaxSnapshots == 11     \* snapshots explored per run
MaxTickSnapshots == 1  \* a run is followed through timer ticks while it has taken
                       \* at most this many snapshots, and takes no more than this
                       \* many once it has ticked
MaxStarts == 2         \* successful starts explored

TimerPeriod == 10      \* setInterval(..., 1000): 1 s

\* wall-clock time between two timer callbacks: setInterval calls back no
\* earlier than the period; the callback explored is late by half a period
TickDelays == {TimerPeriod + 5}

\* start(patient, bolusDose, continuousDose): doses in 0.001 mg and mg/hr
StartInputs == {<<"reference", 140000, 200>>, <<"elderly", 50000, 0>>, <<Null, 140000, 200>>}

\* updateDose(bolusDose, continuousDose)
UpdateDoseInputs == {<<100000, 300>>}

AlreadyRunningIgnored(run) == FALSE

\* if (this.isRunning) { ... return false; }
AlreadyRunning(run) == run

\* start(patient, bolusDose, continuousDose)
StartWith(inputs) ==
    /\ UNCHANGED <<ctlVars, monVars>>
    /\ \E in \in inputs :
      LET p == in[1]
          params == getModelParameters(p)
      IN
      IF AlreadyRunning(isRunning)
      THEN /\ lastOp' = [name |-> "start", ret |-> "false"]
           /\ notifications' = <<>>
           /\ UNCHANGED <<isRunning, startTime, elapsedTime, patient, pkParams, pdParams,
                          state, bolusDose, continuousDose, snapshots, timer, useLSODA,
                          lsodaSolver, integrationStats, updateCallbacks, bisValue, now,
                          lsodaDefined, stepsIntegrated, snapshotLog, resetSinceStart,
                          nStarts>>
      ELSE IF p = Null
      THEN \* throw new Error('Patient is required')
           /\ lastOp' = [name |-> "start", ret |-> "Error"]
           /\ notifications' = <<>>
           /\ UNCHANGED <<isRunning, startTime, elapsedTime, patient, pkParams, pdParams,
                          state, bolusDose, continuousDose, snapshots, timer, useLSODA,
                          lsodaSolver, integrationStats, updateCallbacks, bisValue, now,
                          lsodaDefined, stepsIntegrated, snapshotLog, resetSinceStart,
                          nStarts>>
      ELSE IF ~validateParameters(params)
      THEN \* calculatePKParameters throws after this.patient was assigned
           /\ patient' = p
           /\ lastOp' = [name |-> "start", ret |-> "Error"]
           /\ notifications' = <<>>
           /\ UNCHANGED <<isRunning, startTime, elapsedTime, pkParams, pdParams,
                          state, bolusDose, continuousDose, snapshots, timer, useLSODA,
                          lsodaSolver, integrationStats, updateCallbacks, bisValue, now,
                          lsodaDefined, stepsIntegrated, snapshotLog, resetSinceStart,
                          nStarts>>
      ELSE /\ nStarts < MaxStarts
           /\ patient' = p
           /\ pkParams' = params.pk
           /\ pdParams' = params.pd
           /\ bolusDose' = in[2]
           /\ continuousDose' = in[3]
           /\ state' = [a1 |-> in[2], a2 |-> 0, a3 |-> 0, ce |-> 0]
           /\ startTime' = now
           /\ elapsedTime' = 0
           /\ snapshots' = <<>>
           /\ isRunning' = TRUE
           /\ useLSODA' = (useLSODA /\ lsodaDefined)
           /\ lsodaSolver' = IF useLSODA /\ lsodaDefined THEN "LSODA" ELSE lsodaSolver
           /\ timer' = "interval"
           /\ LET sent == notifyCallbacks(updateCallbacks,
                            getState(TRUE, 0, state', pkParams', bisValue, useLSODA',
                            integrationStats, <<>>, p, in[2], in[3]))
              IN /\ notifications' = <<sent.deliveries>>
                 /\ updateCallbacks' = sent.callbacks
           /\ lastOp' = [name |-> "start", ret |-> "true"]
           /\ stepsIntegrated' = 0
           /\ snapshotLog' = <<>>
           /\ resetSinceStart' = FALSE
           /\ nStarts' = nStarts + 1
           /\ UNCHANGED <<integrationStats, bisValue, now, lsodaDefined>>

\* start(patient, bolusDose, continuousDose)
Start == StartWith(StartInputs)

\* the same with the patients whose parameters are not all positive numbers
AnyStartInputs ==
    StartInputs \cup {<<"ageUnknown", 140000, 200>>, <<"negativeWeight", 140000, 200>>}

StartAnyPatient == StartWith(AnyStartInputs)

clearIntervalLeavesTimer(t) == t

\* clearInterval(this.timer); this.timer = null: the interval is cancelled, its
\* callback is not called again
clearInterval(t) == Null

\* stop()
Stop ==
    /\ UNCHANGED <<ctlVars, monVars>>
    /\ IF ~isRunning
       THEN /\ lastOp' = [name |-> "stop", ret |-> "false"]
            /\ notifications' = <<>>
            /\ UNCHANGED <<isRunning, timer, updateCallbacks>>
       ELSE /\ isRunning' = FALSE
            /\ timer' = IF timer # Null THEN clearInterval(timer) ELSE timer
            /\ LET sent == notifyCallbacks(updateCallbacks,
                             getState(FALSE, elapsedTime, state, pkParams, bisValue, useLSODA,
                             integrationStats, snapshots, patient, bolusDose,
                             continuousDose))
               IN /\ notifications' = <<sent.deliveries>>
                  /\ updateCallbacks' = sent.callbacks
            /\ lastOp' = [name |-> "stop", ret |-> "true"]
    /\ UNCHANGED <<startTime, elapsedTime, patient, pkParams, pdParams, state, bolusDose,
                   continuousDose, snapshots, useLSODA, lsodaSolver, integrationStats,
                   bisValue, now, lsodaDefined, stepsIntegrated,
                   snapshotLog, resetSinceStart, nStarts>>

NotRunningIgnored(run) == FALSE

\* if (!this.isRunning) return ...: the first line of takeSnapshot and updateDose
NotRunning(run) == ~run

SnapshotLimit == 10    \* if (this.snapshots.length > 10) ... slice(0, 10)

PushSnapshotNoLimit(snaps, snapshot) == <<snapshot>> \o snaps

\* snapshots.unshift(snapshot), then the limit
PushSnapshot(snaps, snapshot) ==
    LET pushed == <<snapshot>> \o snaps
    IN IF Len(pushed) > SnapshotLimit THEN SubSeq(pushed, 1, SnapshotLimit) ELSE pushed

\* takeSnapshot()
TakeSnapshot ==
    /\ UNCHANGED <<ctlVars, monVars>>
    /\ IF NotRunning(isRunning)
       THEN /\ lastOp' = [name |-> "takeSnapshot", ret |-> Null]
            /\ UNCHANGED <<snapshots, snapshotLog>>
       ELSE IF pkParams = NullParams
       THEN \* getPlasmaConcentration() throws
            /\ lastOp' = [name |-> "takeSnapshot", ret |-> "TypeError"]
            /\ UNCHANGED <<snapshots, snapshotLog>>
       ELSE /\ Len(snapshotLog) < MaxSnapshots
            /\ elapsedTime > 0 => Len(snapshotLog) < MaxTickSnapshots
            /\ LET snapshot ==
                     [timestamp |-> <<now, Len(snapshotLog) + 1>>,
                      plasmaConcentration |-> getPlasmaConcentration(state, pkParams),
                      effectSiteConcentration |-> state.ce,
                      elapsedTime |-> elapsedTime,
                      dose |-> [bolus |-> bolusDose, continuous |-> continuousDose]]
               IN /\ snapshots' = PushSnapshot(snapshots, snapshot)
                  /\ snapshotLog' = <<snapshot>> \o snapshotLog
                  /\ lastOp' = [name |-> "takeSnapshot", ret |-> "snapshot"]
    /\ notifications' = <<>>
    /\ UNCHANGED <<isRunning, startTime, elapsedTime, patient, pkParams, pdParams, state,
                   bolusDose, continuousDose, timer, useLSODA, lsodaSolver,
                   integrationStats, updateCallbacks, bisValue, now, lsodaDefined,
                   stepsIntegrated, resetSinceStart, nStarts>>

\* the setInterval callback: updateSimulation(); notifyCallbacks()
TickAt(delays, outcomes, maxTicks) ==
    /\ UNCHANGED <<ctlVars, monVars>>
    /\ timer # Null
    /\ now < maxTicks * TimerPeriod
    /\ Len(snapshotLog) <= MaxTickSnapshots
    /\ \E d \in delays, outcome \in outcomes :
         /\ now' = now + d
         /\ IF ~isRunning \/ startTime = NoTime
            THEN UNCHANGED <<elapsedTime, state, useLSODA, integrationStats, bisValue,
                             stepsIntegrated>>
            ELSE /\ elapsedTime' = now' - startTime
                 /\ LET r == IF useLSODA /\ lsodaSolver # Null
                             THEN updateSimulationLSODA(state, pkParams, continuousDose,
                                                        outcome, integrationStats,
                                                        bolusDose)
                             ELSE <<updateSimulationEuler(state, pkParams, continuousDose),
                                    useLSODA, integrationStats>>
                    IN /\ state' = r[1]
                       /\ useLSODA' = r[2]
                       /\ integrationStats' = r[3]
                       /\ stepsIntegrated' =
                            IF r[1] = state /\ outcome = "short" /\ useLSODA
                                 /\ lsodaSolver # Null
                            THEN stepsIntegrated ELSE stepsIntegrated + 1
                 /\ bisValue' = IF pdParams # NullParams
                                THEN calculateBIS(state'.ce, pdParams) ELSE bisValue
    /\ LET sent == notifyCallbacks(updateCallbacks,
                     getState(isRunning, elapsedTime', state', pkParams, bisValue', useLSODA',
                     integrationStats', snapshots, patient, bolusDose, continuousDose))
       IN /\ notifications' = <<sent.deliveries>>
          /\ updateCallbacks' = sent.callbacks
    /\ lastOp' = [name |-> "tick", ret |-> Null]
    /\ UNCHANGED <<isRunning, startTime, patient, pkParams, pdParams, bolusDose,
                   continuousDose, snapshots, timer, lsodaSolver,
                   lsodaDefined, snapshotLog, resetSinceStart, nStarts>>

\* the same with the callbacks late by half a period
TickOf(outcomes, maxTicks) == TickAt(TickDelays, outcomes, maxTicks)

\* the timer callback: updateSimulation(); notifyCallbacks()
Tick == TickOf(LsodaOutcomes, MaxTicks)

\* updateDose(bolusDose, continuousDose) with one of inputs
UpdateDoseOf(inputs) ==
    /\ UNCHANGED <<ctlVars, monVars>>
    /\ \E in \in inputs :
      /\ IF NotRunning(isRunning)
         THEN /\ lastOp' = [name |-> "updateDose", ret |-> "false"]
              /\ notifications' = <<>>
              /\ UNCHANGED <<bolusDose, continuousDose, updateCallbacks>>
         ELSE /\ bolusDose' = in[1]
              /\ continuousDose' = in[2]
              /\ LET sent == notifyCallbacks(updateCallbacks,
                               getState(isRunning, elapsedTime, state, pkParams, bisValue,
                               useLSODA, integrationStats, snapshots, patient, in[1],
                               in[2]))
                 IN /\ notifications' = <<sent.deliveries>>
                    /\ updateCallbacks' = sent.callbacks
              /\ lastOp' = [name |-> "updateDose", ret |-> "true"]
      /\ UNCHANGED <<isRunning, startTime, elapsedTime, patient, pkParams, pdParams, state,
                     snapshots, timer, useLSODA, lsodaSolver, integrationStats,
                     bisValue, now, lsodaDefined, stepsIntegrated,
                     snapshotLog, resetSinceStart, nStarts>>

\* updateDose(bolusDose, continuousDose)
UpdateDose == UpdateDoseOf(UpdateDoseInputs)

\* reset(): stop(), clear the fields, notifyCallbacks()
Reset ==
    /\ UNCHANGED <<ctlVars, monVars>>
    /\ isRunning' = FALSE
    /\ timer' = IF isRunning /\ timer # Null THEN clearInterval(timer) ELSE timer
    /\ patient' = Null
    /\ pkParams' = NullParams
    /\ pdParams' = NullParams
    /\ state' = [a1 |-> 0, a2 |-> 0, a3 |-> 0, ce |-> 0]
    /\ bolusDose' = 0
    /\ continuousDose' = 0
    /\ snapshots' = <<>>
    /\ elapsedTime' = 0
    /\ integrationStats' = Null
    /\ bisValue' = InitialBIS
    /\ LET stopped == getState(FALSE, elapsedTime, state, pkParams, bisValue, useLSODA,
                                integrationStats, snapshots, patient, bolusDose,
                                continuousDose)
           cleared == getState(FALSE, 0, state', NullParams, InitialBIS, useLSODA, Null,
                               <<>>, Null, 0, 0)
           sentByStop == notifyCallbacks(updateCallbacks, stopped)
           afterStop == IF isRunning THEN sentByStop.callbacks ELSE updateCallbacks
           sent == notifyCallbacks(afterStop, cleared)
       IN /\ notifications' =
               (IF isRunning THEN <<sentByStop.deliveries>> ELSE <<>>)
               \o <<sent.deliveries>>
          /\ updateCallbacks' = sent.callbacks
    /\ lastOp' = [name |-> "reset", ret |-> Null]
    /\ resetSinceStart' = TRUE
    /\ UNCHANGED <<startTime, useLSODA, lsodaSolver, now, lsodaDefined,
                   stepsIntegrated, snapshotLog, nStarts>>

InitInduction ==
    /\ ConstructInduction
    /\ now = 0
    /\ lsodaDefined \in BOOLEAN
    /\ IdleStepDown
    /\ IdleMonitoring

NextInduction ==
    \/ AddUpdateCallback
    \/ Start
    \/ Stop
    \/ TakeSnapshot
    \/ Tick
    \/ UpdateDose
    \/ Reset

SpecInduction == InitInduction /\ [][NextInduction]_vars

\* the engine with callbacks of every kind, started with one patient and dose;
\* takeSnapshot, which notifies nobody, is left out
NotifyStartInputs == {<<"reference", 140000, 200>>}

StartNotifying == StartWith(NotifyStartInputs)

NextNotify ==
    \/ AddCallbackOfAnyKind
    \/ RemoveUpdateCallback
    \/ StartNotifying
    \/ Stop
    \/ Tick
    \/ UpdateDose
    \/ Reset

SpecNotify == InitInduction /\ [][NextNotify]_vars

\* the engine with a solver that may return a row that is not a number, and
\* with a continuous dose that is not a number
MaxNonFiniteTicks == 2 \* timer periods of wall clock explored with such results

TickNonFinite == TickOf(AnyLsodaOutcomes, MaxNonFiniteTicks)

AnyDoseInputs == UpdateDoseInputs \cup {<<100000, NaN>>}

UpdateAnyDose == UpdateDoseOf(AnyDoseInputs)

NextNonFinite ==
    \/ AddUpdateCallback
    \/ StartNotifying
    \/ Stop
    \/ TickNonFinite
    \/ UpdateAnyDose
    \/ Reset

SpecNonFinite == InitInduction /\ [][NextNonFinite]_vars

(***************************************************************************)
(* Induction contract                                                      *)
(***************************************************************************)
\* the fields of the engine
engineFields == <<isRunning, startTime, elapsedTime, patient, pkParams, pdParams, state,
                  bolusDose, continuousDose, snapshots, timer, useLSODA, lsodaSolver,
                  integrationStats, updateCallbacks, bisValue>>

\* C4: each tick of the running engine advances the elapsed time by the fixed
\* simulated increment 0.01 min (0.6 s = 6), whatever wall-clock time has passed
\* since the previous tick or since start.
C4_FixedIncrementPerTick ==
    [][(lastOp'.name = "tick" /\ isRunning) => elapsedTime' = elapsedTime + 6]_vars

\* C5: immediately after a successful start the observables delivered to the
\* callbacks are plasma = bolus / V1, ce = 0 and BIS = bis_baseline of the
\* parameters derived for the patient, on the first run and on every restart.
C5_ObservablesAtStart ==
    (lastOp.name = "start" /\ lastOp.ret = "true") =>
        /\ Len(notifications) = 1
        /\ Len(notifications[1]) = Len(updateCallbacks)
        /\ \A k \in 1..Len(notifications[1]) :
              LET arg == notifications[1][k].arg IN
              /\ arg.plasmaConcentration = (bolusDose * 100) \div pkParams.v1
              /\ arg.effectSiteConcentration = 0
              /\ arg.bisValue = pdParams.bis_baseline

\* C9: updateDose on a running engine changes the continuous infusion rate and
\* nothing else: the stored bolus dose, the compartment state, the elapsed time
\* and the snapshot ring are unchanged.
C9_UpdateDoseChangesRateOnly ==
    [][(lastOp'.name = "updateDose" /\ lastOp'.ret = "true") =>
          /\ bolusDose' = bolusDose
          /\ state' = state
          /\ elapsedTime' = elapsedTime
          /\ snapshots' = snapshots]_vars

\* the first min(n, 10) entries of a log that is kept newest first
MostRecent(log) == SubSeq(log, 1, Min(Len(log), SnapshotLimit))

\* C10 as stated: the ring holds at most 10 snapshots, and they are exactly the
\* most recent min(n, 10) of the n snapshots taken since the last start, newest
\* first.
C10_RingSinceLastStart ==
    /\ Len(snapshots) <= SnapshotLimit
    /\ snapshots = MostRecent(snapshotLog)

\* C10, amended: the ring holds at most 10 snapshots, and they are exactly the
\* most recent min(n, 10) of the n snapshots taken since the last start or
\* reset, newest first; a reset empties the ring.
C10_RingSinceLastStartOrReset ==
    /\ Len(snapshots) <= SnapshotLimit
    /\ snapshots = IF resetSinceStart THEN <<>> ELSE MostRecent(snapshotLog)

\* an eleventh snapshot of a run has rotated the first one out of the ring
C10_Witness ==
    /\ isRunning
    /\ ~resetSinceStart
    /\ Len(snapshotLog) = SnapshotLimit + 1
    /\ Len(snapshots) = SnapshotLimit
    /\ snapshots[1] = snapshotLog[1]
    /\ snapshots[SnapshotLimit] = snapshotLog[SnapshotLimit]

\* C11: after stop() on a running engine no tick occurs before the next start:
\* whatever is called on the stopped engine short of start and reset, the
\* compartment state, the elapsed time and the observables (plasma, ce, BIS)
\* stay as they are; a further stop() returns false, changes no field and
\* notifies no callback.
C11_NoTickAfterStop ==
    [][(~isRunning /\ lastOp'.name \notin {"start", "reset"}) =>
          /\ lastOp'.name # "tick"
          /\ ~isRunning'
          /\ state' = state
          /\ elapsedTime' = elapsedTime
          /\ bisValue' = bisValue
          /\ pkParams' = pkParams
          /\ lastOp'.name = "stop" =>
                /\ lastOp'.ret = "false"
                /\ notifications' = <<>>
                /\ engineFields' = engineFields]_vars

\* a run that has ticked was stopped, and stop() was called again
C11_Witness ==
    /\ lastOp.name = "stop"
    /\ lastOp.ret = "false"
    /\ ~isRunning
    /\ timer = Null
    /\ elapsedTime > 0
    /\ state.ce > 0

\* C12: start() on a running engine returns false, changes no field of the
\* engine (patient, parameters, doses, compartment state, elapsed time,
\* snapshots), arms no second timer and notifies no callback.
C12_StartWhileRunning ==
    [][(isRunning /\ lastOp'.name = "start") =>
          /\ lastOp'.ret = "false"
          /\ engineFields' = engineFields
          /\ notifications' = <<>>]_vars

\* start() was refused on a run that has ticked and holds a snapshot
C12_Witness ==
    /\ lastOp.name = "start"
    /\ lastOp.ret = "false"
    /\ isRunning
    /\ timer # Null
    /\ elapsedTime > 0
    /\ Len(snapshots) > 0

\* C13: takeSnapshot and updateDose on an engine that is not running (before the
\* first start, after stop, after reset) return null and false, do not throw,
\* change no field of the engine and notify no callback.
C13_IgnoredWhenNotRunning ==
    [][(~isRunning /\ lastOp'.name \in {"takeSnapshot", "updateDose"}) =>
          /\ lastOp'.ret = (IF lastOp'.name = "takeSnapshot" THEN Null ELSE "false")
          /\ engineFields' = engineFields
          /\ notifications' = <<>>]_vars

\* updateDose was refused on an engine that was reset after a run
C13_Witness ==
    /\ lastOp.name = "updateDose"
    /\ lastOp.ret = "false"
    /\ ~isRunning
    /\ resetSinceStart
    /\ nStarts > 0
    /\ pkParams = NullParams

\* the callbacks a notification invoked, in the order of the calls
invokedIn(notification) == [k \in 1..Len(notification) |-> notification[k].cb]

\* C14: when a registered callback throws while it is notified, the exception
\* does not leave the notification: every callback registered when the
\* notification began is still invoked in it, the operation returns as it does
\* without the exception, and after start, tick or updateDose the engine is
\* still running with its timer scheduled, so later ticks occur and notify.
C14_ThrowingCallbackSwallowed ==
    [][(/\ Len(notifications') > 0
        /\ \E k \in 1..Len(notifications'[1]) : Throws(notifications'[1][k].cb)) =>
          /\ invokedIn(notifications'[1]) = updateCallbacks
          /\ lastOp'.ret # "Error"
          /\ lastOp'.name \in {"start", "tick", "updateDose"} =>
                isRunning' /\ timer' # Null
          /\ lastOp'.name = "tick" => timer' = timer]_vars

\* a tick notified a throwing callback first and the callback after it as well
C14_Witness ==
    /\ lastOp.name = "tick"
    /\ Len(notifications) = 1
    /\ invokedIn(notifications[1]) = <<"throwing", "onUpdate">>
    /\ isRunning
    /\ timer # Null
    /\ elapsedTime > 0

\* this.updateCallbacks after the callbacks of a notification have run
RECURSIVE registeredAfter(_, _)
registeredAfter(cbs, notification) ==
    IF notification = <<>> THEN cbs
    ELSE registeredAfter(bodyOf(Head(notification).cb, cbs), Tail(notification))

\* the n-th notification of an operation invokes the callbacks registered when
\* it began, in the order of their registration, each once
InvokedInOrder(before, sent, n) ==
    invokedIn(sent[n]) = IF n = 1 THEN before ELSE registeredAfter(before, sent[n - 1])

\* the engine with a timer that calls back exactly one period after the last
\* callback, and a solver that returns a full row
MaxOnTimeTicks == 3 \* timer periods of wall clock explored with such a timer

TickOnTime == TickAt({TimerPeriod}, {"ok"}, MaxOnTimeTicks)

NextOnTime ==
    \/ AddUpdateCallback
    \/ StartNotifying
    \/ Stop
    \/ TickOnTime
    \/ UpdateDose
    \/ Reset

SpecOnTime == InitInduction /\ [][NextOnTime]_vars

StepSize == 10 \* const dt = 1.0 (1 second time step), in 0.1 s

\* the elapsed time of the engine and of every state its last notification
\* delivered is the simulated time integrated since start
elapsedIsIntegrated(elapsed, sent, steps) ==
    /\ elapsed = steps * StepSize
    /\ \A k \in 1..Len(sent) : sent[k].arg.elapsedTime = steps * StepSize

\* C30: in a running engine the elapsed time reported to the callbacks is the
\* simulated time integrated into the compartments, the number of integration
\* steps times the step size, whatever the timing of the timer callbacks.
C30_ElapsedIsIntegratedTime ==
    [][lastOp'.name = "tick" /\ isRunning
          => elapsedIsIntegrated(elapsedTime', notifications'[1],
                                 stepsIntegrated')]_vars

\* a callback half a period late: 1.5 s reported, one step of 1 s integrated
ElapsedAheadOfIntegration ==
    /\ lastOp.name = "tick"
    /\ isRunning
    /\ stepsIntegrated = 1
    /\ Len(notifications[1]) = 1
    /\ notifications[1][1].arg.elapsedTime = TimerPeriod + 5
    /\ notifications[1][1].arg.elapsedTime > stepsIntegrated * StepSize

\* with the callbacks on time and a step integrated by each, three ticks
\* report 3 s with three steps integrated
OnTimeThreeSteps ==
    /\ lastOp.name = "tick"
    /\ isRunning
    /\ stepsIntegrated = 3
    /\ Len(notifications[1]) = 1
    /\ notifications[1][1].arg.elapsedTime = 3 * StepSize

\* what getState() returns or throws in the current state
currentState ==
    getState(isRunning, elapsedTime, state, pkParams, bisValue, useLSODA,
             integrationStats, snapshots, patient, bolusDose, continuousDose)

\* C29: getState() returns normally in every reachable state, before the
\* first start and after reset() included, and the notification reset() sends
\* reaches every registered callback with the cleared state: not running,
\* elapsed 0, no snapshots.
C29_GetStateAlwaysReturns ==
    /\ [](currentState # TypeError)
    /\ [][lastOp'.name = "reset" =>
            LET sent == notifications'[Len(notifications')] IN
            /\ Len(sent) = Len(updateCallbacks)
            /\ \A k \in 1..Len(sent) :
                  /\ sent[k].cb = updateCallbacks[k]
                  /\ ~sent[k].arg.isRunning
                  /\ sent[k].arg.elapsedTime = 0
                  /\ sent[k].arg.snapshots = <<>>]_vars

\* a new engine: getState() throws before the first start
GetStateThrowsBeforeStart ==
    /\ lastOp.name \in {"constructor", "addUpdateCallback"}
    /\ nStarts = 0
    /\ currentState = TypeError

\* after reset() with a callback registered: getState() throws and the
\* notification of reset() invoked nobody
GetStateThrowsAfterReset ==
    /\ lastOp.name = "reset"
    /\ nStarts > 0
    /\ updateCallbacks # <<>>
    /\ notifications[Len(notifications)] = <<>>
    /\ currentState = TypeError

\* from a start that succeeded until reset(), getState() returns
GetStateReturnsWhileDerived ==
    (nStarts > 0 /\ ~resetSinceStart) => currentState # TypeError

\* C15: every notification invokes the callbacks in the order of their
\* registration, each exactly once, and a callback registered by a callback
\* during a notification is invoked from the next notification on.
C15_RegistrationOrderEachOnce ==
    [][\A n \in 1..Len(notifications') :
          InvokedInOrder(updateCallbacks, notifications', n)]_vars

\* the same of every notification that getState() survives: all but the one
\* reset() sends after it cleared pkParams
InvokedInOrderUnlessCleared ==
    [][\A n \in 1..Len(notifications') :
          (lastOp'.name = "reset" /\ n = Len(notifications')) \/
          InvokedInOrder(updateCallbacks, notifications', n)]_vars

\* a callback registered during a notification was left out of it
RegisteredDuringNotification ==
    /\ lastOp.name = "tick"
    /\ Len(notifications) = 1
    /\ invokedIn(notifications[1]) = <<"registering", "onUpdate">>
    /\ updateCallbacks = <<"registering", "onUpdate", "registered">>

\* C21: a tick of the running engine never leaves a compartment value or ce
\* that is not a number without raising an error: the first such result is
\* replaced by the safe state before the callbacks are notified, the second
\* one in a run is raised to the caller.
C21_NonFiniteResetOrFatal ==
    [][lastOp'.name = "tick" /\ isRunning
          => ~containsNaN(state') \/ lastOp'.ret = "Error"]_vars

\* two ticks of one run have integrated, the state is not a number, the engine
\* is running and the callbacks were handed a plasma concentration NaN
NonFiniteRunContinues ==
    /\ lastOp = [name |-> "tick", ret |-> Null]
    /\ isRunning
    /\ stepsIntegrated = 2
    /\ containsNaN(state)
    /\ Len(updateCallbacks) = 1
    /\ notifications[1][1].arg.plasmaConcentration = NaN

\* the one path into resetToSafeState(): the solver returned NaN in one tick and
\* threw in the next, which integrates from the safe state with Euler
SafeStateAfterThrow ==
    /\ lastOp.name = "tick"
    /\ stepsIntegrated = 2
    /\ ~useLSODA /\ integrationStats # Null
    /\ ~containsNaN(state)
    /\ state.a2 > 0

(***************************************************************************)
(* MonitoringEngine: the dose list                                         *)
(***************************************************************************)
\* ValidationLimits.Dosing (bolus in 0.001 mg, continuous in mg/hr)
ValidationLimits ==
    [minimumTime |-> 0, maximumTime |-> 576000,
     minimumBolus |-> 0, maximumBolus |-> 1000000,
     minimumContinuous |-> 0, maximumContinuous |-> 500]

\* new DoseEvent(timeInMinutes, bolusMg, continuousMgHr)
DoseEvent(t, bolus, continuous) ==
    [timeInMinutes |-> t, bolusMg |-> bolus, continuousMgHr |-> continuous]

\* DoseEvent.validate().isValid
validate(e) ==
    /\ ~(e.bolusMg < ValidationLimits.minimumBolus
           \/ e.bolusMg > ValidationLimits.maximumBolus)
    /\ ~(e.continuousMgHr < ValidationLimits.minimumContinuous
           \/ e.continuousMgHr > ValidationLimits.maximumContinuous)

\* a sort by time that puts an element ahead of the elements of its time
RECURSIVE sortAheadOfTies(_)
sortAheadOfTies(events) ==
    IF events = <<>> THEN <<>>
    ELSE LET sorted == sortAheadOfTies(SubSeq(events, 1, Len(events) - 1))
             e == events[Len(events)]
             before == SelectSeq(sorted, LAMBDA x : x.timeInMinutes < e.timeInMinutes)
             after == SelectSeq(sorted, LAMBDA x : x.timeInMinutes >= e.timeInMinutes)
         IN before \o <<e>> \o after

\* Array.prototype.sort((a, b) => a.timeInMinutes - b.timeInMinutes): stable,
\* an element goes behind the elements that do not come after it
RECURSIVE sortDoseEvents(_)
sortDoseEvents(events) ==
    IF events = <<>> THEN <<>>
    ELSE LET sorted == sortDoseEvents(SubSeq(events, 1, Len(events) - 1))
             e == events[Len(events)]
             before == SelectSeq(sorted, LAMBDA x : x.timeInMinutes <= e.timeInMinutes)
             after == SelectSeq(sorted, LAMBDA x : x.timeInMinutes > e.timeInMinutes)
         IN before \o <<e>> \o after

\* the same sort on { time, ... } entries
RECURSIVE sortByTime(_)
sortByTime(events) ==
    IF events = <<>> THEN <<>>
    ELSE LET sorted == sortByTime(SubSeq(events, 1, Len(events) - 1))
             e == events[Len(events)]
             before == SelectSeq(sorted, LAMBDA x : x.time <= e.time)
             after == SelectSeq(sorted, LAMBDA x : x.time > e.time)
         IN before \o <<e>> \o after

MaxEvents == 3         \* dose events in the list

\* the dose events offered to addDoseEvent: <<time, bolus, continuous>>
DoseEventInputs ==
    {<<0, 50000, 120>>,        \* bolus at t = 0 and an infusion
     <<4, 30000, 0>>,          \* bolus on the first grid step, infusion stopped
     <<4, 0, 60>>,             \* rate change at the same time
     <<5, 5000, 90>>,          \* a quarter step behind a grid point
     <<2, 10000, 60>>,         \* 0.005 min, half-way between the grid points 0 and 0.01
     <<8, 20000, 60>>,
     <<0 - 4, 10000, 30>>,     \* negative time
     <<8, 0 - 1000, 0>>,       \* negative bolus
     <<8, 0, 0 - 1>>}          \* negative rate

\* the operations of the engine run to completion: none starts inside a run
MonitoringIdle == monPc # "loop"

runLocals == <<finalDuration, index, bolusEvents, infusionEvents, bolusIndex,
               infusionIndex, currentInfusionRate, initialBolus, monState,
               plasmaConcentrations, appliedBoluses>>

\* outside a run its locals do not exist: they are held at their initial values
DropRunLocals ==
    /\ finalDuration' = 0
    /\ index' = 0
    /\ bolusEvents' = <<>>
    /\ infusionEvents' = <<>>
    /\ bolusIndex' = 0
    /\ infusionIndex' = 0
    /\ currentInfusionRate' = 0
    /\ initialBolus' = 0
    /\ monState' = [a1 |-> 0, a2 |-> 0, a3 |-> 0]
    /\ plasmaConcentrations' = <<>>
    /\ appliedBoluses' = <<>>

\* setPatient(patient) with a patient of patients
SetPatientOf(patients) ==
    /\ MonitoringIdle
    /\ \E p \in patients :
         LET params == getModelParameters(p) IN
         /\ monPatient' = p
         /\ IF validateParameters(params)
            THEN /\ monPkParams' = params.pk
                 /\ monPdParams' = params.pd
                 /\ monLastOp' = [name |-> "setPatient", ret |-> Null]
            ELSE /\ UNCHANGED <<monPkParams, monPdParams>>
                 /\ monLastOp' = [name |-> "setPatient", ret |-> "Error"]
    /\ monPc' = "idle"
    /\ DropRunLocals
    /\ UNCHANGED <<doseEvents, lastSimulationResult>>
    /\ UNCHANGED <<ctlVars, indVars>>

\* setPatient(patient)
SetPatient == SetPatientOf(Patients)

\* setPatient(patient) with any patient
SetAnyPatient == SetPatientOf(AnyPatients)

\* addDoseEvent(doseEvent)
AddDoseEvent ==
    /\ MonitoringIdle
    /\ \E in \in DoseEventInputs :
         LET doseEvent == DoseEvent(in[1], in[2], in[3]) IN
         IF ~validate(doseEvent)
         THEN /\ monLastOp' = [name |-> "addDoseEvent", event |-> doseEvent,
                               ret |-> "Error"]
              /\ UNCHANGED doseEvents
         ELSE /\ Len(doseEvents) < MaxEvents
              /\ doseEvents' = sortDoseEvents(Append(doseEvents, doseEvent))
              /\ monLastOp' = [name |-> "addDoseEvent", event |-> doseEvent,
                               ret |-> Null]
    /\ monPc' = "idle"
    /\ DropRunLocals
    /\ UNCHANGED <<monPatient, monPkParams, monPdParams, lastSimulationResult>>
    /\ UNCHANGED <<ctlVars, indVars>>

\* removeDoseEvent(index)
RemoveDoseEvent ==
    /\ MonitoringIdle
    /\ \E k \in 0..Len(doseEvents) :
         IF k >= 0 /\ k < Len(doseEvents)
         THEN /\ doseEvents' = SubSeq(doseEvents, 1, k)
                                 \o SubSeq(doseEvents, k + 2, Len(doseEvents))
              /\ monLastOp' = [name |-> "removeDoseEvent", ret |-> "removed"]
         ELSE /\ UNCHANGED doseEvents
              /\ monLastOp' = [name |-> "removeDoseEvent", ret |-> Null]
    /\ monPc' = "idle"
    /\ DropRunLocals
    /\ UNCHANGED <<monPatient, monPkParams, monPdParams, lastSimulationResult>>
    /\ UNCHANGED <<ctlVars, indVars>>

\* clearDoseEvents()
ClearDoseEvents ==
    /\ MonitoringIdle
    /\ doseEvents' = <<>>
    /\ monLastOp' = [name |-> "clearDoseEvents", ret |-> Null]
    /\ monPc' = "idle"
    /\ DropRunLocals
    /\ UNCHANGED <<monPatient, monPkParams, monPdParams, lastSimulationResult>>
    /\ UNCHANGED <<ctlVars, indVars>>

(***************************************************************************)
(* MonitoringEngine: runSimulation                                         *)
(***************************************************************************)
precision == 4         \* this.precision = 0.01: the grid step

DefaultTail == 48000   \* maxEventTime + 120.0

\* simulationDurationMin handed to runSimulation
Durations == {12, 16}

\* Math.max(...this.doseEvents.map(event => event.timeInMinutes))
maxEventTime(events) ==
    CHOOSE t \in {events[k].timeInMinutes : k \in 1..Len(events)} :
        \A k \in 1..Len(events) : events[k].timeInMinutes <= t

\* times[index] of the sequence t = 0, timeStep, 2 timeStep, ... <= finalDuration
times(k) == k * precision

timesLength(duration) == duration \div precision + 1

\* calculatePlasmaConcentrationsAdvanced: the boluses at a time other than 0
bolusEventsOf(events) ==
    LET late == SelectSeq(events, LAMBDA e : e.bolusMg > 0 /\ e.timeInMinutes # 0)
    IN sortByTime([k \in 1..Len(late) |->
                     [time |-> late[k].timeInMinutes, dose |-> late[k].bolusMg]])

\* calculatePlasmaConcentrationsAdvanced: the rate changes, a rate equal to the
\* one pushed last is left out
RECURSIVE rateChanges(_)
rateChanges(events) ==
    IF events = <<>> THEN <<>>
    ELSE LET pushed == rateChanges(SubSeq(events, 1, Len(events) - 1))
             event == events[Len(events)]
             newRate == event.continuousMgHr
         IN IF Len(pushed) = 0 \/ newRate # pushed[Len(pushed)].rate
            THEN Append(pushed, [time |-> event.timeInMinutes, rate |-> newRate])
            ELSE pushed

\* ... sorted, with the initial zero infusion in front if needed
infusionEventsOf(events) ==
    LET sorted == sortByTime(rateChanges(events))
    IN IF Len(sorted) = 0 \/ sorted[1].time > 0
       THEN <<[time |-> 0, rate |-> 0]>> \o sorted
       ELSE sorted

\* calculatePlasmaConcentrationsRK4: the boluses at t = 0, the initial condition
RECURSIVE initialBolusOf(_)
initialBolusOf(events) ==
    IF events = <<>> THEN 0
    ELSE LET event == events[Len(events)]
         IN initialBolusOf(SubSeq(events, 1, Len(events) - 1))
              + (IF event.timeInMinutes = 0 /\ event.bolusMg > 0 THEN event.bolusMg ELSE 0)

\* Math.abs(bolusEvents[bolusIndex].time - currentTime) < timeStep / 2
BolusDue(bolusTime, currentTime) == 2 * Abs(bolusTime - currentTime) < precision

InfusionDueStrict(eventTime, currentTime) == currentTime > eventTime

\* currentTime >= infusionEvents[infusionIndex].time
InfusionDue(eventTime, currentTime) == currentTime >= eventTime

\* the first while loop: <<a1, bolusIndex, applied>> (bolusIndex counts from 0)
RECURSIVE applyBoluses(_, _, _, _, _)
applyBoluses(boluses, k, a1, applied, currentTime) ==
    IF k < Len(boluses) /\ BolusDue(boluses[k + 1].time, currentTime)
    THEN IF boluses[k + 1].time > 0
         THEN applyBoluses(boluses, k + 1, a1 + boluses[k + 1].dose,
                           Append(applied, [time |-> boluses[k + 1].time,
                                            dose |-> boluses[k + 1].dose,
                                            at |-> currentTime]),
                           currentTime)
         ELSE applyBoluses(boluses, k + 1, a1, applied, currentTime)
    ELSE <<a1, k, applied>>

\* the second while loop: <<currentInfusionRate, infusionIndex>>
RECURSIVE updateInfusionRate(_, _, _, _)
updateInfusionRate(infusions, k, rate, currentTime) ==
    IF k < Len(infusions) /\ InfusionDue(infusions[k + 1].time, currentTime)
    THEN updateInfusionRate(infusions, k + 1, infusions[k + 1].rate, currentTime)
    ELSE <<rate, k>>

\* derivatives(s) of updateSystemStateRK4, in 0.001 mg / min
derivatives(s, pk, infusionRate) ==
    [da1dt |-> (infusionRate * 1000) \div 60
                 - ((pk.k10 + pk.k12 + pk.k13) * s.a1) \div 10000
                 + (pk.k21 * s.a2) \div 10000 + (pk.k31 * s.a3) \div 10000,
     da2dt |-> (pk.k12 * s.a1) \div 10000 - (pk.k21 * s.a2) \div 10000,
     da3dt |-> (pk.k13 * s.a1) \div 10000 - (pk.k31 * s.a3) \div 10000]

\* updateSystemStateRK4(state, infusionRateMgMin, dt) with dt = 0.01 min
updateSystemStateRK4(s, pk, infusionRate) ==
    LET k1 == derivatives(s, pk, infusionRate)
        k2 == derivatives([a1 |-> s.a1 + k1.da1dt \div 200,
                           a2 |-> s.a2 + k1.da2dt \div 200,
                           a3 |-> s.a3 + k1.da3dt \div 200], pk, infusionRate)
        k3 == derivatives([a1 |-> s.a1 + k2.da1dt \div 200,
                           a2 |-> s.a2 + k2.da2dt \div 200,
                           a3 |-> s.a3 + k2.da3dt \div 200], pk, infusionRate)
        k4 == derivatives([a1 |-> s.a1 + k3.da1dt \div 100,
                           a2 |-> s.a2 + k3.da2dt \div 100,
                           a3 |-> s.a3 + k3.da3dt \div 100], pk, infusionRate)
    IN [a1 |-> s.a1 + (k1.da1dt + 2 * k2.da1dt + 2 * k3.da1dt + k4.da1dt) \div 600,
        a2 |-> s.a2 + (k1.da2dt + 2 * k2.da2dt + 2 * k3.da2dt + k4.da2dt) \div 600,
        a3 |-> s.a3 + (k1.da3dt + 2 * k2.da3dt + 2 * k3.da3dt + k4.da3dt) \div 600]

\* runSimulation(simulationDurationMin) up to the loop of
\* calculatePlasmaConcentrationsRK4
RunSimulation ==
    /\ MonitoringIdle
    /\ \E simulationDurationMin \in Durations :
         IF monPatient = Null \/ monPkParams = NullParams \/ Len(doseEvents) = 0
         THEN /\ monLastOp' = [name |-> "runSimulation", ret |-> "Error"]
              /\ monPc' = "idle"
              /\ DropRunLocals
         ELSE /\ finalDuration' = IF simulationDurationMin = 0
                                  THEN maxEventTime(doseEvents) + DefaultTail
                                  ELSE simulationDurationMin
              /\ bolusEvents' = bolusEventsOf(doseEvents)
              /\ infusionEvents' = infusionEventsOf(doseEvents)
              /\ initialBolus' = initialBolusOf(doseEvents)
              /\ monState' = [a1 |-> initialBolus', a2 |-> 0, a3 |-> 0]
              /\ plasmaConcentrations' = <<>>
              /\ bolusIndex' = 0
              /\ infusionIndex' = 0
              /\ currentInfusionRate' = 0
              /\ index' = 0
              /\ appliedBoluses' = <<>>
              /\ monLastOp' = [name |-> "runSimulation", ret |-> "running"]
              /\ monPc' = "loop"
    /\ UNCHANGED <<doseEvents, monPatient, monPkParams, monPdParams, lastSimulationResult>>
    /\ UNCHANGED <<ctlVars, indVars>>

\* one iteration of for (index = 0; index < times.length; index++)
RK4Step ==
    /\ monPc = "loop"
    /\ index < timesLength(finalDuration)
    /\ LET currentTime == times(index)
           b == applyBoluses(bolusEvents, bolusIndex, monState.a1, appliedBoluses,
                             currentTime)
           r == updateInfusionRate(infusionEvents, infusionIndex, currentInfusionRate,
                                   currentTime)
           jumped == [monState EXCEPT !.a1 = b[1]]
       IN /\ bolusIndex' = b[2]
          /\ appliedBoluses' = b[3]
          /\ currentInfusionRate' = r[1]
          /\ infusionIndex' = r[2]
          /\ plasmaConcentrations' =
               Append(plasmaConcentrations, Max(0, (jumped.a1 * 100) \div monPkParams.v1))
          /\ monState' = IF index < timesLength(finalDuration) - 1
                         THEN updateSystemStateRK4(jumped, monPkParams, r[1])
                         ELSE jumped
    /\ index' = index + 1
    /\ UNCHANGED <<doseEvents, monPatient, monPkParams, monPdParams, lastSimulationResult,
                   monPc, finalDuration, bolusEvents, infusionEvents, initialBolus,
                   monLastOp>>
    /\ UNCHANGED <<ctlVars, indVars>>

\* the loop is over: the result is stored and returned
FinishSimulation ==
    /\ monPc = "loop"
    /\ index = timesLength(finalDuration)
    /\ lastSimulationResult' = <<"SimulationResult">>
    /\ monLastOp' = [name |-> "runSimulation", ret |-> "result"]
    /\ monPc' = "done"
    /\ UNCHANGED <<doseEvents, monPatient, monPkParams, monPdParams, runLocals>>
    /\ UNCHANGED <<ctlVars, indVars>>

InitMonitoring ==
    /\ ConstructMonitoring
    /\ IdleStepDown
    /\ IdleInduction

NextMonitoring ==
    \/ SetPatient
    \/ AddDoseEvent
    \/ RemoveDoseEvent
    \/ ClearDoseEvents
    \/ RunSimulation
    \/ RK4Step
    \/ FinishSimulation

SpecMonitoring == InitMonitoring /\ [][NextMonitoring]_vars

(***************************************************************************)
(* The parameters the engines store: setPatient of the monitoring engine   *)
(* and start of the induction engine, with any patient                     *)
(***************************************************************************)
NextDerive ==
    \/ SetAnyPatient
    \/ StartAnyPatient
    \/ Stop
    \/ Reset

SpecDerive == InitInduction /\ [][NextDerive]_vars

\* a stored parameter that is a number above 0
positiveNumber(x) == x # NaN /\ x > 0

\* V1, V2, V3, CL, Q2, Q3, ke0 and ce50, bis_baseline, gamma_low, gamma_high
allPositive(pk, pd) ==
    /\ positiveNumber(pk.v1) /\ positiveNumber(pk.v2) /\ positiveNumber(pk.v3)
    /\ positiveNumber(pk.cl) /\ positiveNumber(pk.q2) /\ positiveNumber(pk.q3)
    /\ positiveNumber(pk.ke0)
    /\ positiveNumber(pd.ce50) /\ positiveNumber(pd.bis_baseline)
    /\ positiveNumber(pd.gamma_low) /\ positiveNumber(pd.gamma_high)

\* C20: the PK and PD parameters an engine holds after a successful setPatient
\* or start are all numbers above 0, and a setPatient or start that returned
\* normally was given a patient all of whose parameters are such numbers: for
\* any other patient it raises an error.
C20_StoredParametersPositive ==
    /\ monPkParams # NullParams => allPositive(monPkParams, monPdParams)
    /\ pkParams # NullParams => allPositive(pkParams, pdParams)
    /\ (monLastOp.name = "setPatient" /\ monLastOp.ret # "Error") =>
          allPositive(getModelParameters(monPatient).pk, getModelParameters(monPatient).pd)
    /\ (lastOp.name = "start" /\ lastOp.ret = "true") =>
          allPositive(getModelParameters(patient).pk, getModelParameters(patient).pd)

\* a patient with a parameter at or below 0 was refused and nothing of it stored
NonPositiveRefused ==
    /\ monLastOp.name = "setPatient"
    /\ monLastOp.ret = "Error"
    /\ monPatient = "negativeWeight"
    /\ lastOp.name = "start"
    /\ lastOp.ret = "Error"
    /\ patient = "negativeWeight"
    /\ monPkParams = NullParams
    /\ pkParams = NullParams

\* parameters that are not numbers were stored by setPatient and by start
NaNStored ==
    /\ monLastOp.name = "setPatient"
    /\ monLastOp.ret # "Error"
    /\ monPkParams.v2 = NaN
    /\ monPdParams.ce50 = NaN
    /\ lastOp.name = "start"
    /\ lastOp.ret = "true"
    /\ pkParams.cl = NaN
    /\ pdParams.ce50 = NaN

(***************************************************************************)
(* Monitoring contract                                                     *)
(***************************************************************************)
\* the number of entries of a sequence that satisfy Test
Count(seq, Test(_)) == Cardinality({k \in 1..Len(seq) : Test(seq[k])})

\* C6: at the end of a run every accepted dose event with bolus > 0 and a time in
\* [0, horizon] has added its dose to a1 exactly once: the boluses at t = 0 as
\* the initial condition, a later one as one jump at the grid step of its time.
C6_EveryBolusAppliedOnce ==
    monPc = "done" =>
        /\ initialBolus = initialBolusOf(doseEvents)
        /\ \A k \in 1..Len(doseEvents) :
              LET e == doseEvents[k] IN
              (e.bolusMg > 0 /\ e.timeInMinutes > 0 /\ e.timeInMinutes <= finalDuration)
                => /\ Count(appliedBoluses,
                            LAMBDA a : a.time = e.timeInMinutes /\ a.dose = e.bolusMg)
                        = Count(doseEvents,
                                LAMBDA d : d.timeInMinutes = e.timeInMinutes
                                             /\ d.bolusMg = e.bolusMg)
                   /\ \A n \in 1..Len(appliedBoluses) :
                         appliedBoluses[n].time = e.timeInMinutes
                           => 2 * Abs(appliedBoluses[n].at - e.timeInMinutes) <= precision

\* C7: addDoseEvent rejects every event with a negative time, a negative bolus
\* or a negative infusion rate: it raises an error and leaves the dose list
\* unchanged; only events whose three fields are all >= 0 are inserted.
C7_NegativeFieldsRejected ==
    [][monLastOp'.name = "addDoseEvent" =>
          LET e == monLastOp'.event IN
          IF e.timeInMinutes < 0 \/ e.bolusMg < 0 \/ e.continuousMgHr < 0
          THEN monLastOp'.ret = "Error" /\ doseEvents' = doseEvents
          ELSE TRUE]_vars

\* the continuous rate declared by the last event, in list order, whose time is
\* <= t; 0 before the first event
DeclaredRate(events, t) ==
    LET upTo == {k \in 1..Len(events) : events[k].timeInMinutes <= t}
    IN IF upTo = {} THEN 0
       ELSE events[CHOOSE k \in upTo : \A j \in upTo : j <= k].continuousMgHr

\* C8: the infusion rate in force after the rate update at grid time t, the one
\* handed to the RK4 step, is the rate declared by the last dose event in list
\* order whose time is <= t, and 0 before the first event.
C8_RateOfLastEvent ==
    (monPc # "idle" /\ index > 0) =>
        currentInfusionRate = DeclaredRate(doseEvents, times(index - 1))

\* two events at the same time with different rates, and the run is at or past
\* that time: the rate of the event added later is in force
C8_Witness ==
    /\ monPc = "loop"
    /\ index > 0
    /\ \E k \in 1..(Len(doseEvents) - 1) :
          /\ doseEvents[k].timeInMinutes = doseEvents[k + 1].timeInMinutes
          /\ doseEvents[k].continuousMgHr # doseEvents[k + 1].continuousMgHr
          /\ doseEvents[k + 1].timeInMinutes = times(index - 1)
          /\ currentInfusionRate = doseEvents[k + 1].continuousMgHr
          /\ currentInfusionRate > 0

\* the list without its k-th element
without(events, k) == SubSeq(events, 1, k - 1) \o SubSeq(events, k + 1, Len(events))

\* C16: after every addDoseEvent, removeDoseEvent and clearDoseEvents the dose
\* list is sorted by non-decreasing time, and events of equal time stay in the
\* order in which they were added: an added event stands behind every event
\* that is not later, the others keep their places relative to each other,
\* and a removal takes one element out and moves none.
C16_SortedByTimeStable ==
    [][/\ \A k \in 1..(Len(doseEvents') - 1) :
            doseEvents'[k].timeInMinutes <= doseEvents'[k + 1].timeInMinutes
       /\ (monLastOp'.name = "addDoseEvent" /\ monLastOp'.ret # "Error") =>
            \E k \in 1..Len(doseEvents') :
               /\ doseEvents'[k] = monLastOp'.event
               /\ without(doseEvents', k) = doseEvents
               /\ \A j \in 1..(k - 1) :
                     doseEvents'[j].timeInMinutes <= doseEvents'[k].timeInMinutes
               /\ \A j \in (k + 1)..Len(doseEvents') :
                     doseEvents'[j].timeInMinutes > doseEvents'[k].timeInMinutes
       /\ monLastOp'.name = "removeDoseEvent" =>
            \/ doseEvents' = doseEvents
            \/ \E k \in 1..Len(doseEvents) : doseEvents' = without(doseEvents, k)
       /\ monLastOp'.name = "clearDoseEvents" => doseEvents' = <<>>]_vars

\* an event was added at a time the list already held, behind the one of that
\* time and ahead of a later one
C16_Witness ==
    /\ monLastOp.name = "addDoseEvent"
    /\ monLastOp.ret # "Error"
    /\ Len(doseEvents) = 3
    /\ doseEvents[1].timeInMinutes = 4
    /\ doseEvents[2] = monLastOp.event
    /\ doseEvents[2].timeInMinutes = 4
    /\ doseEvents[1] # doseEvents[2]
    /\ doseEvents[3].timeInMinutes > 4


(***************************************************************************)
(* simulateAdvancedStepDownProtocol with the compartments integrated: the  *)
(* loop for the reference patient, the effect-site level computed          *)
(***************************************************************************)
\* this.pkParams after setPatient(reference patient)
ProtocolPkParams == getModelParameters("reference").pk

\* bolusDoseMg handed to the engine (0.001 mg): 70 mg, none, and -10 mg
BolusDoses == {70000, 0, 0 - 10000}

\* initialContinuousRate (0.001 mg/hr): 100 and 600 mg/hr
IntegratedRates == {100000, 600000}

\* the run that is followed: the default 0.1 min step over MaxIntegratedTime,
\* target 1.0 ug/mL
MaxIntegratedTime == 300   \* simulationDuration of the integrated run, 0.01 min

IntegratedOverrides ==
    [targetCe |-> 100, simulationDuration |-> MaxIntegratedTime, adjustmentInterval |-> 50]

\* derivatives(s) of AdvancedProtocolEngine.updateSystemStateRK4, in 0.001 mg/min;
\* rate is currentRate in 0.001 mg/hr
derivativesOf(s, pk, rate) ==
    [da1dt |-> rate \div 60
                 - ((pk.k10 + pk.k12 + pk.k13) * s.a1) \div 10000
                 + (pk.k21 * s.a2) \div 10000 + (pk.k31 * s.a3) \div 10000,
     da2dt |-> (pk.k12 * s.a1) \div 10000 - (pk.k21 * s.a2) \div 10000,
     da3dt |-> (pk.k13 * s.a1) \div 10000 - (pk.k31 * s.a3) \div 10000]

\* AdvancedProtocolEngine.updateSystemStateRK4(state, infusionRateMgMin, dt), dt in
\* 0.01 min
protocolStateRK4(s, pk, rate, dt) ==
    LET k1 == derivativesOf(s, pk, rate)
        k2 == derivativesOf([a1 |-> s.a1 + (dt * k1.da1dt) \div 200,
                             a2 |-> s.a2 + (dt * k1.da2dt) \div 200,
                             a3 |-> s.a3 + (dt * k1.da3dt) \div 200], pk, rate)
        k3 == derivativesOf([a1 |-> s.a1 + (dt * k2.da1dt) \div 200,
                             a2 |-> s.a2 + (dt * k2.da2dt) \div 200,
                             a3 |-> s.a3 + (dt * k2.da3dt) \div 200], pk, rate)
        k4 == derivativesOf([a1 |-> s.a1 + (dt * k3.da1dt) \div 100,
                             a2 |-> s.a2 + (dt * k3.da2dt) \div 100,
                             a3 |-> s.a3 + (dt * k3.da3dt) \div 100], pk, rate)
    IN [a1 |-> s.a1 + (dt * (k1.da1dt + 2 * k2.da1dt + 2 * k3.da1dt + k4.da1dt)) \div 600,
        a2 |-> s.a2 + (dt * (k1.da2dt + 2 * k2.da2dt + 2 * k3.da2dt + k4.da2dt)) \div 600,
        a3 |-> s.a3 + (dt * (k1.da3dt + 2 * k2.da3dt + 2 * k3.da3dt + k4.da3dt)) \div 600]

\* currentCe + timeStep * ke0 * (plasmaConc - currentCe), in 0.01 ug/mL
effectSiteStep(ce, plasmaConc, pk, dt) ==
    ce + (dt * pk.ke0 * (plasmaConc - ce)) \div 1000000

InitIntegrated ==
    /\ settings = updateSettings(DefaultSettings, IntegratedOverrides)
    /\ currentRate \in IntegratedRates
    /\ \E bolusDoseMg \in BolusDoses :
          protocolState = [a1 |-> bolusDoseMg, a2 |-> 0, a3 |-> 0]
    /\ pc = "integrate"
    /\ i = 0
    /\ currentCe = 0                                \* bolusState.effectSiteConc
    /\ infusionRateMgMin = 0
    /\ lastAdjustmentTime = 0 - settings.adjustmentInterval
    /\ adjustmentCount = 0
    /\ adjustmentsThisHour = 0
    /\ currentHour = 0
    /\ timeSeriesData = <<>>
    /\ dosageAdjustments = <<>>
    /\ reductions = <<>>
    /\ IdleGridSearch
    /\ NotDerived
    /\ NoSession
    /\ IdleInduction
    /\ IdleMonitoring

\* one iteration of the loop of simulateAdvancedStepDownProtocol
IntegrateStep ==
    /\ pc = "integrate"
    /\ i < numSteps(settings)
    /\ LET currentTime == i * settings.timeStep
           hour == currentTime \div MinutesPerHour
           thisHour == IF hour > currentHour THEN 0 ELSE adjustmentsThisHour
           plasmaConc == (protocolState.a1 * 10) \div ProtocolPkParams.v1
           ce == IF i > 0
                 THEN effectSiteStep(currentCe, plasmaConc, ProtocolPkParams,
                                     settings.timeStep)
                 ELSE currentCe
           reduce == StepDownGuard(ce, currentTime, lastAdjustmentTime, thisHour,
                                   currentRate, settings)
           rate == IF reduce THEN NewRate(currentRate, settings) ELSE currentRate
           count == IF reduce THEN adjustmentCount + 1 ELSE adjustmentCount
       IN
       /\ infusionRateMgMin' = currentRate
       /\ currentHour' = IF hour > currentHour THEN hour ELSE currentHour
       /\ currentCe' = ce
       /\ currentRate' = rate
       /\ adjustmentCount' = count
       /\ adjustmentsThisHour' = IF reduce THEN thisHour + 1 ELSE thisHour
       /\ lastAdjustmentTime' = IF reduce THEN currentTime ELSE lastAdjustmentTime
       /\ reductions' = IF reduce
                        THEN Append(reductions, [time |-> currentTime,
                                                 oldRate |-> currentRate,
                                                 newRate |-> rate])
                        ELSE reductions
       /\ timeSeriesData' = Append(timeSeriesData,
                                   [time |-> toFixed1(currentTime),
                                    ce |-> ce,
                                    infusionRate |-> rate,
                                    adjustmentNumber |-> count])
       /\ protocolState' = IF i < numSteps(settings) - 1
                           THEN protocolStateRK4(protocolState, ProtocolPkParams,
                                                 infusionRateMgMin', settings.timeStep)
                           ELSE protocolState
    /\ i' = i + 1
    /\ pc' = IF i + 1 < numSteps(settings) THEN "integrate" ELSE "extract"
    /\ UNCHANGED <<settings, dosageAdjustments>>
    /\ UNCHANGED <<calcVars, appVars, optVars, indVars, monVars>>

NextIntegrated == IntegrateStep \/ GenerateProtocol

SpecIntegrated == InitIntegrated /\ [][NextIntegrated]_vars

\* C22: after every integration step of the protocol loop each of a1, a2, a3
\* and ce is at least 0 (what undershoots is clamped to 0).
C22_NonNegativeAfterStep ==
    [][pc = "integrate"
          => /\ protocolState'.a1 >= 0 /\ protocolState'.a2 >= 0 /\ protocolState'.a3 >= 0
             /\ currentCe' >= 0]_vars

\* the steps of the runs that start from a bolus of at least 0 stay at or above 0
NonNegativeFromNonNegative ==
    [][pc = "integrate" /\ currentCe >= 0 /\ protocolState.a1 >= 0
          /\ protocolState.a2 >= 0 /\ protocolState.a3 >= 0
          => /\ protocolState'.a1 >= 0 /\ protocolState'.a2 >= 0 /\ protocolState'.a3 >= 0
             /\ currentCe' >= 0]_vars

\* a run is over with a negative effect-site level in its time series
NegativeCeRecorded ==
    /\ pc = "done"
    /\ \E k \in 1..Len(timeSeriesData) : timeSeriesData[k].ce < 0

\* C26: the infusionRate recorded in the sample at time t is the rate that
\* integrates the compartments from t to t + timeStep, at every sample that an
\* integration step follows, the samples of a step-down included.
C26_RecordedRateIsIntegrated ==
    [][pc = "integrate" /\ i < numSteps(settings) - 1
          => /\ timeSeriesData'[Len(timeSeriesData')].infusionRate = infusionRateMgMin'
             /\ protocolState' = protocolStateRK4(protocolState, ProtocolPkParams,
                                    timeSeriesData'[Len(timeSeriesData')].infusionRate,
                                    settings.timeStep)]_vars

\* the sample of a step-down: the reduced rate is recorded, the compartments
\* were advanced with the rate of before (70 % recorded of 100 %)
RecordedRateNotIntegrated ==
    /\ pc = "integrate"
    /\ Len(reductions) >= 1
    /\ reductions[Len(reductions)].time = (i - 1) * settings.timeStep
    /\ timeSeriesData[Len(timeSeriesData)].infusionRate
         = NewRate(infusionRateMgMin, settings)
    /\ timeSeriesData[Len(timeSeriesData)].infusionRate < infusionRateMgMin


(***************************************************************************)
(* EleveldPKPDCalculator.calculatePKParameters in fixed point: ratios and  *)
(* factors in units of 1 / Scale, volumes in 0.01 L, clearances in 0.0001  *)
(* L/min, masses in 0.001 kg                                               *)
(***************************************************************************)
Scale == 10000

\* a * b and a / b on fixed-point numbers, rounded to nearest
fmul(a, b) == (a * b + Scale \div 2) \div Scale
fdiv(a, b) == (a * Scale + b \div 2) \div b

\* Math.exp(x): the series 1 + x + x^2/2! + ...
RECURSIVE expSeries(_, _, _, _)
expSeries(x, n, term, sum) ==
    LET next == (fmul(term, x) * 2 + n) \div (2 * n)
    IN IF next = 0 \/ n > 16 THEN sum ELSE expSeries(x, n + 1, next, sum + next)

fexp(x) == expSeries(x, 1, Scale, Scale)

\* Math.sqrt on integers by Newton's iteration
RECURSIVE newton(_, _)
newton(x, r) ==
    LET n == (r + x \div r) \div 2
    IN IF n >= r THEN r ELSE newton(x, n)

fsqrt(x) == IF x <= 0 THEN 0 ELSE newton(x * Scale, x * Scale)

\* Math.pow(x, 0.75) as the square root of x * sqrt(x)
pow075(x) == fsqrt(fmul(x, fsqrt(x)))

\* Math.pow(x, n) for a whole n
RECURSIVE intPow(_, _)
intPow(x, n) == IF n = 0 THEN Scale ELSE fmul(x, intPow(x, n - 1))

\* EleveldModelConstants.theta: volumes and clearances in the units above,
\* weights and ages in tenths, the exponents of exp in 0.00001 per year; the
\* slopes 9.06, 12.7 and 1.1 of Math.pow are taken as 9, 13 and 1
theta ==
    [V1_ref |-> 628, V2_ref |-> 2550, V3_ref |-> 27300, CL_ref_male |-> 17900,
     Q2_ref |-> 18300, Q3_ref |-> 11100, CL_E50 |-> 423, CL_slope |-> 9,
     V2_age |-> 0 - 1560, CL_age_opioid |-> 0 - 286, V1_wgt50 |-> 336,
     V3_age_opioid |-> 0 - 1380, Q3_E50 |-> 683, CL_ref_female |-> 21000,
     Q2_maturation |-> 13000]

wgt_ref == 70
age_ref == 35

\* f_sigmoid(x, E50, lambda): x^l / (x^l + E50^l), as 1 / (1 + (E50 / x)^l)
f_sigmoid(x, E50, lambda) == fdiv(Scale, Scale + intPow(fdiv(E50, x), lambda))

\* f_ageing(x, age, age_ref): Math.exp(x * (age - age_ref))
f_ageing(x, age) == fexp((x * (age - age_ref)) \div 10)

\* exp(x * (age - age_ref)) whether or not an opioid is given
f_opiatesFromReference(x, age, opioid_coadmin) == fexp((x * (age - age_ref)) \div 10)

\* f_opiates(x, age, opioid_coadmin): Math.exp(x * age) with an opioid, else 1
f_opiates(x, age, opioid_coadmin) ==
    IF opioid_coadmin = "yes" THEN fexp((x * age) \div 10) ELSE Scale

\* patient.bmi: weight / (height / 100)^2
bmiOf(pat) ==
    (fdiv(pat.weight * 100, pat.height) * 100 + pat.height \div 2)
        \div pat.height

\* calculateFFM(patient), in 0.001 kg
calculateFFM(pat) ==
    LET wgt == pat.weight
        ratio == fdiv(wgt, pat.height)
        squared == fmul(ratio, ratio)
    IN IF pat.age < 2 THEN wgt * 820
       ELSE IF pat.sex = "male"
       THEN LET term1 == (81576 * wgt * 100) \div (6680 + (216 * bmiOf(pat)) \div Scale)
                term2 == fdiv(1200, Scale + intPow(fdiv(134, pat.age * 10), 13))
                term3 == 1110 * wgt - (128 * squared) \div 10
            IN term1 + fmul(term2, term3)
       ELSE LET term1 == (102897 * wgt * 100) \div (8780 + (244 * bmiOf(pat)) \div Scale)
                term2 == fdiv(0 - 1100, Scale + intPow(fdiv(71, pat.age * 10), 1))
                term3 == 1070 * wgt - (148 * squared) \div 10
            IN term1 + fmul(term2, term3)

\* the reference individual: 35 y, 70 kg, 170 cm, male; opioid given
ReferencePatient ==
    [age |-> 35, weight |-> 70, height |-> 170, sex |-> "male", opioidCoadmin |-> "yes"]

\* patient.ffm_ref
ffm_ref == calculateFFM(ReferencePatient)

\* calculatePKParameters(patient)
calculatePKParameters(pat) ==
    LET age == pat.age
        wgt == pat.weight
        pma == age * 52 + 40
        pma_ref == age_ref * 52 + 40
        ffm == calculateFFM(pat)
        f_central_wgt == f_sigmoid(wgt * 10, theta.V1_wgt50, 1)
        f_central_wgt_ref == f_sigmoid(wgt_ref * 10, theta.V1_wgt50, 1)
        V1 == fmul(theta.V1_ref, fdiv(f_central_wgt, f_central_wgt_ref))
        V2 == fmul(theta.V2_ref, fmul(fdiv(wgt, wgt_ref), f_ageing(theta.V2_age, age)))
        V3 == fmul(theta.V3_ref,
                   fmul(fdiv(ffm, ffm_ref),
                        f_opiates(theta.V3_age_opioid, age, pat.opioidCoadmin)))
        f_CLmaturation == f_sigmoid(pma * 10, theta.CL_E50, theta.CL_slope)
        f_CLmaturation_ref == f_sigmoid(pma_ref * 10, theta.CL_E50, theta.CL_slope)
        CL_base == IF pat.sex = "male" THEN theta.CL_ref_male ELSE theta.CL_ref_female
        CL == fmul(CL_base,
                   fmul(fmul(pow075(fdiv(wgt, wgt_ref)),
                             fdiv(f_CLmaturation, f_CLmaturation_ref)),
                        f_opiates(theta.CL_age_opioid, age, pat.opioidCoadmin)))
        f_Q3maturation == f_sigmoid(pma * 10, theta.Q3_E50, 1)
        f_Q3maturation_ref == f_sigmoid(pma_ref * 10, theta.Q3_E50, 1)
        Q2 == fmul(theta.Q2_ref,
                   fmul(pow075(fdiv(V2, theta.V2_ref)),
                        Scale + fmul(theta.Q2_maturation, Scale - f_Q3maturation)))
        Q3 == fmul(theta.Q3_ref,
                   fmul(pow075(fdiv(V3, theta.V3_ref)),
                        fdiv(f_Q3maturation, f_Q3maturation_ref)))
    IN [V1 |-> V1, V2 |-> V2, V3 |-> V3, CL |-> CL, Q2 |-> Q2, Q3 |-> Q3, FFM |-> ffm]

\* the adult patients the calculator is called with
CalcPatients ==
    [age : {25, 35, 60}, weight : {50, 70, 90}, height : {160, 170},
     sex : {"male", "female"}, opioidCoadmin : {"yes", "no"}]

InitCalculator ==
    /\ calcPatient \in CalcPatients
    /\ calcResult = NullParams
    /\ NoSession
    /\ NoStepDownRun
    /\ IdleGridSearch
    /\ IdleInduction
    /\ IdleMonitoring

\* EleveldPKPDCalculator.calculatePKParameters(patient)
CalculatePKParameters ==
    /\ calcResult = NullParams
    /\ calcResult' = calculatePKParameters(calcPatient)
    /\ UNCHANGED <<calcPatient, settings, pc, i, currentCe, currentRate, infusionRateMgMin,
                   lastAdjustmentTime, adjustmentCount, adjustmentsThisHour,
                   currentHour, timeSeriesData, dosageAdjustments, reductions>>
    /\ UNCHANGED <<simVars, appVars, optVars, indVars, monVars>>

NextCalculator == CalculatePKParameters

SpecCalculator == InitCalculator /\ [][NextCalculator]_vars

\* |x - target| / target <= 0.5 %
within(x, target) == 200 * Abs(x - target) <= target

PatientLimits ==
    [minimumAge |-> 1, maximumAge |-> 100,
     minimumWeight |-> 3, maximumWeight |-> 200,
     minimumHeight |-> 70, maximumHeight |-> 220,
     minimumBMI |-> 10, maximumBMI |-> 50]

\* Patient.validate(): isValid; bmi = weight / (height / 100)^2 is compared
\* with its limits after multiplying through by height^2
validatePatient(pat) ==
    LET lim == PatientLimits IN
    /\ pat.id # ""
    /\ ~(pat.age < lim.minimumAge \/ pat.age > lim.maximumAge)
    /\ ~(pat.weight < lim.minimumWeight \/ pat.weight > lim.maximumWeight)
    /\ ~(pat.height < lim.minimumHeight \/ pat.height > lim.maximumHeight)
    /\ ~(\/ pat.weight * 10000 < lim.minimumBMI * pat.height * pat.height
          \/ pat.weight * 10000 > lim.maximumBMI * pat.height * pat.height)

\* initializeDefaultPatient(): 35 years, 70 kg, 170 cm, male, ASA 1-2, opioid
\* yes, 8:00
DefaultPatient ==
    [id |-> "Patient-today", age |-> 35, weight |-> 70, height |-> 170,
     sex |-> "male", asaPS |-> "1-2", opioidCoadmin |-> "yes",
     anesthesiaStartTime |-> 480]

\* what the edit form can hold when it is submitted
EditForms ==
    [id : {"Patient-today", ""}, age : {35, 0}, weight : {70, 250},
     height : {170, 60}, sex : {"male", "female"}, asaPS : {"1-2", "3-4"},
     opioidCoadmin : {"yes", "no"}, anesthesiaStartTime : {480, 545}]

InitSession ==
    /\ appPatient = DefaultPatient
    /\ enginesPatient = DefaultPatient
    /\ editOutcome = "none"
    /\ NotDerived
    /\ NoStepDownRun
    /\ IdleGridSearch
    /\ IdleInduction
    /\ IdleMonitoring

\* the assignments of savePatientData to the fields of appState.patient
assignFields(form) ==
    [id |-> form.id, age |-> form.age, weight |-> form.weight,
     height |-> form.height, sex |-> form.sex, asaPS |-> form.asaPS,
     opioidCoadmin |-> form.opioidCoadmin,
     anesthesiaStartTime |-> form.anesthesiaStartTime]

\* savePatientData(e): the fields of the session's Patient are assigned from
\* the form, then validate(); on errors alert and return, otherwise the three
\* engines get setPatient(this.appState.patient)
SavePatientData ==
    /\ \E form \in EditForms :
          /\ appPatient' = assignFields(form)
          /\ IF validatePatient(appPatient')
             THEN /\ enginesPatient' = appPatient'
                  /\ editOutcome' = "saved"
             ELSE /\ editOutcome' = "rejected"
                  /\ UNCHANGED enginesPatient
    /\ UNCHANGED <<settings, pc, i, currentCe, currentRate, infusionRateMgMin,
                   lastAdjustmentTime, adjustmentCount, adjustmentsThisHour,
                   currentHour, timeSeriesData, dosageAdjustments, reductions>>
    /\ UNCHANGED <<simVars, calcVars, optVars, indVars, monVars>>

NextSession == SavePatientData

SpecSession == InitSession /\ [][NextSession]_vars

\* C28: an edit that fails validation leaves the session's Patient as it was:
\* id, age, weight, height, sex, ASA class, opioid flag and start time.
C28_RejectedEditKeepsPatient ==
    [][editOutcome' = "rejected" => appPatient' = appPatient]_vars

\* a rejected edit after which the session's Patient is not valid and differs
\* from the patient the engines derived their parameters from
InvalidPatientInSession ==
    /\ editOutcome = "rejected"
    /\ ~validatePatient(appPatient)
    /\ validatePatient(enginesPatient)
    /\ appPatient # enginesPatient

\* the engines keep the parameters of the last valid patient
RejectedEditKeepsEngines ==
    [][editOutcome' = "rejected" => enginesPatient' = enginesPatient]_vars

\* an accepted edit reaches the session and the engines
SavedEditReachesEngines ==
    editOutcome = "saved" => validatePatient(appPatient) /\ enginesPatient = appPatient

====
